---- MODULE Spec2Model ----
(***************************************************************************)
(* Support/resistance zone engine of finance-bot                           *)
(* (src/finance-bot/src/indicators/support_resistance.py).                 *)
(*                                                                         *)
(* Python indices are kept 0-based in the 'index' field of a pivot; the    *)
(* series itself is a TLA+ sequence, so bar i of the code is df[i + 1].    *)
(* Prices of the model are even integers, so that (upper + lower) / 2 is   *)
(* exact; the other floats are exact rationals <<num, den>> with den > 0.  *)
(***************************************************************************)
EXTENDS Integers, Sequences, FiniteSets, TLC

VARIABLES pc, df, left_bars, right_bars, pivots,
          current_price, tolerance_percent, min_touches,
          include_touching_levels, result, rerun,
          volume_args, volume_strength, pattern_args, pattern_strength,
          confidence_args, breakout_confidence,
          support_resistance, workers, analyzer,
          clock, tickers, last_surge_timestamps, cycle, tasks, semaphore,
          position, sent, cycle_result, previous,
          stages, flow_results,
          names, inodes, savers, loader

engine_vars == <<df, left_bars, right_bars, pivots,
                 current_price, tolerance_percent, min_touches,
                 include_touching_levels, result, rerun>>

score_vars == <<volume_args, volume_strength, pattern_args, pattern_strength,
                confidence_args, breakout_confidence>>

\* state of the callers of the engine
daily_vars == <<support_resistance>>

\* the workers of the tickers and the attributes of the analyzer object
worker_vars == <<workers, analyzer>>

\* the SurgeMonitor object, the cycle it runs and the cycle before
monitor_vars == <<clock, tickers, last_surge_timestamps, cycle, tasks, semaphore,
                  position, sent, cycle_result, previous>>

\* analyze_ticker_multi_timeframe: the timeframes handled and its results
flow_vars == <<stages, flow_results>>

\* the directory, the files and the processes that use the portfolio file
portfolio_vars == <<names, inodes, savers, loader>>

app_vars == <<daily_vars, worker_vars, monitor_vars, flow_vars, portfolio_vars>>

vars == <<pc, engine_vars, score_vars, app_vars>>

(***************************************************************************)
(* Bounds of the model                                                     *)
(***************************************************************************)
MaxLen == 3

MaxBars == 1

MaxRecent == 3

Prices == {200, 202, 206}

Volumes == {0, 1000000}

CurrentPrices == {203}

TolerancePercents == {1, 2}

MinTouchesChoices == {1, 2}

None == "none"

SeqToSet(seq) == {seq[k] : k \in 1..Len(seq)}

\* dict.get(key, default)
Get(dict, key, default) == IF key \in DOMAIN dict THEN dict[key] ELSE default

(***************************************************************************)
(* Exact rational arithmetic for the float expressions of the code         *)
(***************************************************************************)
Abs(x) == IF x < 0 THEN -x ELSE x

Max2(a, b) == IF a >= b THEN a ELSE b

Min2(a, b) == IF a <= b THEN a ELSE b

RECURSIVE Gcd(_, _)
Gcd(a, b) == IF b = 0 THEN a ELSE Gcd(b, a % b)

Rat(n, d) ==
    LET s == IF d < 0 THEN -1 ELSE 1
        g == Gcd(Abs(n), Abs(d))
    IN  <<(s * n) \div g, (s * d) \div g>>

RatAdd(a, b) == Rat(a[1] * b[2] + b[1] * a[2], a[2] * b[2])

RatMul(a, b) == Rat(a[1] * b[1], a[2] * b[2])

RatLess(a, b) == a[1] * b[2] < b[1] * a[2]

RatLeq(a, b) == a[1] * b[2] <= b[1] * a[2]

RatMin(a, b) == IF RatLeq(a, b) THEN a ELSE b

RatMax(a, b) == IF RatLeq(a, b) THEN b ELSE a

(***************************************************************************)
(* The OHLCV series: rows sorted ascending by timestamp, no duplicates     *)
(***************************************************************************)
Bars == {b \in [high : Prices, low : Prices] : b.low <= b.high}

\* the series of n bars b, every bar with volume v, stamped in ascending order
Series(n, b, v) ==
    [i \in 1..n |-> [timestamp |-> i, high |-> b[i].high,
                     low |-> b[i].low, volume |-> v]]

High(d) == [i \in 1..Len(d) |-> d[i].high]

Low(d) == [i \in 1..Len(d) |-> d[i].low]

(***************************************************************************)
(* find_pivots                                                             *)
(***************************************************************************)
\* faulty variant: the comparison admits ties (>, not >=)
RECURSIVE NoneAbove(_, _, _, _)
NoneAbove(values, current, from, to) ==
    IF from >= to THEN TRUE
    ELSE IF values[from + 1] > current THEN FALSE
    ELSE NoneAbove(values, current, from + 1, to)

\* for j in range(from, to): if values[j] >= current: return False
RECURSIVE NoneAtOrAbove(_, _, _, _)
NoneAtOrAbove(values, current, from, to) ==
    IF from >= to THEN TRUE
    ELSE IF values[from + 1] >= current THEN FALSE
    ELSE NoneAtOrAbove(values, current, from + 1, to)

\* faulty variant: the comparison admits ties (<, not <=)
RECURSIVE NoneBelow(_, _, _, _)
NoneBelow(values, current, from, to) ==
    IF from >= to THEN TRUE
    ELSE IF values[from + 1] < current THEN FALSE
    ELSE NoneBelow(values, current, from + 1, to)

\* for j in range(from, to): if values[j] <= current: return False
RECURSIVE NoneAtOrBelow(_, _, _, _)
NoneAtOrBelow(values, current, from, to) ==
    IF from >= to THEN TRUE
    ELSE IF values[from + 1] <= current THEN FALSE
    ELSE NoneAtOrBelow(values, current, from + 1, to)

IsPivotHigh(high, i, left, right) ==
    /\ NoneAtOrAbove(high, high[i + 1], i - left, i)
    /\ NoneAtOrAbove(high, high[i + 1], i + 1, i + right + 1)

IsPivotLow(low, i, left, right) ==
    /\ NoneAtOrBelow(low, low[i + 1], i - left, i)
    /\ NoneAtOrBelow(low, low[i + 1], i + 1, i + right + 1)

\* faulty variant: the pivot high is recorded with the low of its bar
PivotHighRecordOfLow(d, i) ==
    [index |-> i, price |-> d[i + 1].low,
     timestamp |-> d[i + 1].timestamp, volume |-> d[i + 1].volume]

PivotHighRecord(d, i) ==
    [index |-> i, price |-> d[i + 1].high,
     timestamp |-> d[i + 1].timestamp, volume |-> d[i + 1].volume]

PivotLowRecord(d, i) ==
    [index |-> i, price |-> d[i + 1].low,
     timestamp |-> d[i + 1].timestamp, volume |-> d[i + 1].volume]

\* for i in range(left_bars, len(df) - right_bars)
PivotRangeStart(d, left, right) == left

PivotRangeStop(d, left, right) == Len(d) - right

RECURSIVE PivotHighsFrom(_, _, _, _, _)
PivotHighsFrom(d, i, stop, left, right) ==
    IF i >= stop THEN <<>>
    ELSE (IF IsPivotHigh(High(d), i, left, right)
          THEN <<PivotHighRecord(d, i)>> ELSE <<>>)
         \o PivotHighsFrom(d, i + 1, stop, left, right)

RECURSIVE PivotLowsFrom(_, _, _, _, _)
PivotLowsFrom(d, i, stop, left, right) ==
    IF i >= stop THEN <<>>
    ELSE (IF IsPivotLow(Low(d), i, left, right)
          THEN <<PivotLowRecord(d, i)>> ELSE <<>>)
         \o PivotLowsFrom(d, i + 1, stop, left, right)

\* faulty variant: every bar is a candidate, its windows clipped to the series
find_pivots_clipped(d, left, right) ==
    LET inside(i) == {j \in ((i - left)..(i - 1)) \cup ((i + 1)..(i + right)) :
                        0 <= j /\ j < Len(d)}
        highs == {i \in 0..(Len(d) - 1) :
                    \A j \in inside(i) : d[j + 1].high < d[i + 1].high}
        lows == {i \in 0..(Len(d) - 1) :
                   \A j \in inside(i) : d[j + 1].low > d[i + 1].low}
        pick(f(_, _), keep) ==
            LET RECURSIVE from(_)
                from(i) == IF i >= Len(d) THEN <<>>
                           ELSE (IF i \in keep THEN <<f(d, i)>> ELSE <<>>)
                                \o from(i + 1)
            IN  from(0)
    IN  [pivot_highs |-> pick(PivotHighRecord, highs),
         pivot_lows |-> pick(PivotLowRecord, lows)]

find_pivots(d, left, right) ==
    IF Len(d) = 0 \/ Len(d) < left + right + 1
    THEN [pivot_highs |-> <<>>, pivot_lows |-> <<>>]
    ELSE [pivot_highs |-> PivotHighsFrom(d, PivotRangeStart(d, left, right),
                                         PivotRangeStop(d, left, right), left, right),
          pivot_lows |-> PivotLowsFrom(d, PivotRangeStart(d, left, right),
                                       PivotRangeStop(d, left, right), left, right)]

(***************************************************************************)
(* Greedy grouping shared by _group_pivots_into_zones and                  *)
(* _find_touching_levels (a pivot and a touch have the same fields)        *)
(***************************************************************************)
\* sorted(pivots, key=price, reverse=...): Python's sort is stable, also
\* with reverse=True (equal prices keep their original order)
RECURSIVE InsertByPrice(_, _, _)
InsertByPrice(sorted, x, reverse) ==
    IF sorted = <<>> THEN <<x>>
    ELSE IF (IF reverse THEN Head(sorted).price >= x.price
                        ELSE Head(sorted).price <= x.price)
         THEN <<Head(sorted)>> \o InsertByPrice(Tail(sorted), x, reverse)
         ELSE <<x>> \o sorted

RECURSIVE SortByPriceFrom(_, _, _, _)
SortByPriceFrom(seq, k, acc, reverse) ==
    IF k > Len(seq) THEN acc
    ELSE SortByPriceFrom(seq, k + 1, InsertByPrice(acc, seq[k], reverse), reverse)

\* faulty variant: the touches are grouped in the order of the rows
KeepOrder(seq, reverse) == seq

SortByPrice(seq, reverse) == SortByPriceFrom(seq, 1, <<>>, reverse)

NewZone(pivot) ==
    [pivots |-> <<pivot>>,
     upper |-> pivot.price,
     lower |-> pivot.price,
     middle |-> pivot.price,
     total_volume |-> pivot.volume,
     touch_count |-> 1,
     latest_touch |-> pivot.timestamp]

\* tolerance = middle * tolerance_percent / 100; price_diff <= tolerance
FitsZone(zone, price, tolerance) ==
    Abs(price - zone.middle) * 100 <= zone.middle * tolerance

RECURSIVE SumPrices(_)
SumPrices(ps) == IF ps = <<>> THEN 0 ELSE Head(ps).price + SumPrices(Tail(ps))

\* faulty variant: the middle is the running average of the merged prices
AddToZoneWeighted(zone, pivot) ==
    [zone EXCEPT !.pivots = Append(@, pivot),
                 !.upper = Max2(@, pivot.price),
                 !.lower = Min2(@, pivot.price),
                 !.middle = SumPrices(Append(zone.pivots, pivot))
                                \div (zone.touch_count + 1),
                 !.total_volume = @ + pivot.volume,
                 !.touch_count = @ + 1,
                 !.latest_touch = IF pivot.timestamp > @
                                  THEN pivot.timestamp ELSE @]

AddToZone(zone, pivot) ==
    LET upper == Max2(zone.upper, pivot.price)
        lower == Min2(zone.lower, pivot.price)
    IN  [zone EXCEPT !.pivots = Append(@, pivot),
                     !.upper = upper,
                     !.lower = lower,
                     !.middle = (upper + lower) \div 2,
                     !.total_volume = @ + pivot.volume,
                     !.touch_count = @ + 1,
                     !.latest_touch = IF pivot.timestamp > @
                                      THEN pivot.timestamp ELSE @]

\* faulty variant: the closed zone is kept whatever its touch_count
EmitAlways(zones, zone, min) == Append(zones, zone)

EmitIfEnoughTouches(zones, zone, min) ==
    IF zone.touch_count >= min THEN Append(zones, zone) ELSE zones

RECURSIVE GroupFrom(_, _, _, _, _, _)
GroupFrom(sorted, k, zones, current_zone, tolerance, min) ==
    IF k > Len(sorted)
    THEN EmitIfEnoughTouches(zones, current_zone, min)
    ELSE IF FitsZone(current_zone, sorted[k].price, tolerance)
         THEN GroupFrom(sorted, k + 1, zones,
                        AddToZone(current_zone, sorted[k]), tolerance, min)
         ELSE GroupFrom(sorted, k + 1,
                        EmitIfEnoughTouches(zones, current_zone, min),
                        NewZone(sorted[k]), tolerance, min)

_group_pivots_into_zones(ps, price, tolerance, min, is_resistance) ==
    IF ps = <<>> THEN <<>>
    ELSE LET sorted_pivots == SortByPrice(ps, is_resistance)
         IN  GroupFrom(sorted_pivots, 2, <<>>, NewZone(sorted_pivots[1]),
                       tolerance, min)

Touches(d, use_highs) ==
    [i \in 1..Len(d) |->
        [price |-> IF use_highs THEN d[i].high ELSE d[i].low,
         volume |-> d[i].volume,
         timestamp |-> d[i].timestamp,
         index |-> i - 1]]

\* a column the detector reads is missing: df[price_column] raises KeyError
MissingColumn(d, use_highs) ==
    \E i \in 1..Len(d) : (IF use_highs THEN "high" ELSE "low") \notin DOMAIN d[i]

\* the detector has its own except clause, which returns []
_find_touching_levels(d, use_highs, tolerance, min) ==
    IF Len(d) = 0 \/ MissingColumn(d, use_highs) THEN <<>>
    ELSE LET touches == SortByPrice(Touches(d, use_highs), use_highs)
         IN  GroupFrom(touches, 2, <<>>, NewZone(touches[1]), tolerance, min)

(***************************************************************************)
(* create_pivot_zones                                                      *)
(***************************************************************************)
\* min_touches=max(min_touches + 1, 3)
TouchingMinTouches(min) == Max2(min + 1, 3)

Overlaps(zone, existing) ==
    zone.lower <= existing.upper /\ zone.upper >= existing.lower

\* faulty variant: the merge forgets to widen the bounds
AbsorbKeepBounds(existing, zone) ==
    [existing EXCEPT !.touch_count = Max2(@, zone.touch_count),
                     !.total_volume = @ + zone.total_volume,
                     !.pivots = @ \o zone.pivots]

\* faulty variant: the merge keeps the larger touch_count but not the touches
AbsorbDropProvenance(existing, zone) ==
    LET upper == Max2(existing.upper, zone.upper)
        lower == Min2(existing.lower, zone.lower)
    IN  [existing EXCEPT !.upper = upper,
                         !.lower = lower,
                         !.middle = (upper + lower) \div 2,
                         !.touch_count = Max2(@, zone.touch_count),
                         !.total_volume = @ + zone.total_volume]

Absorb(existing, zone) ==
    LET upper == Max2(existing.upper, zone.upper)
        lower == Min2(existing.lower, zone.lower)
    IN  [existing EXCEPT !.upper = upper,
                         !.lower = lower,
                         !.middle = (upper + lower) \div 2,
                         !.touch_count = Max2(@, zone.touch_count),
                         !.total_volume = @ + zone.total_volume,
                         !.pivots = @ \o zone.pivots]

\* for existing in zones: if overlap: ...; break -- position of that existing
RECURSIVE FirstOverlap(_, _, _)
FirstOverlap(zones, zone, k) ==
    IF k > Len(zones) THEN 0
    ELSE IF Overlaps(zone, zones[k]) THEN k
    ELSE FirstOverlap(zones, zone, k + 1)

\* faulty variant: an overlapping zone is absorbed whatever its touch_count
MergeTouchingZoneAlways(zones, zone) ==
    LET k == FirstOverlap(zones, zone, 1)
    IN  IF k = 0 THEN Append(zones, zone)
        ELSE [zones EXCEPT ![k] = Absorb(@, zone)]

MergeTouchingZone(zones, zone) ==
    LET k == FirstOverlap(zones, zone, 1)
    IN  IF k = 0 THEN Append(zones, zone)
        ELSE IF zone.touch_count >= zones[k].touch_count
             THEN [zones EXCEPT ![k] = Absorb(@, zone)]
             ELSE zones

RECURSIVE MergeTouchingZones(_, _, _)
MergeTouchingZones(zones, touching, k) ==
    IF k > Len(touching) THEN zones
    ELSE MergeTouchingZones(MergeTouchingZone(zones, touching[k]), touching, k + 1)

SetKey(zone, key, value) ==
    [x \in DOMAIN zone \cup {key} |-> IF x = key THEN value ELSE zone[x]]

Half == <<1, 2>>

VolumeScale == 1000000

\* the bare except of the code turns a missing key into 0.5
_calculate_zone_strength(zone) ==
    IF {"touch_count", "total_volume", "width_pct"} \subseteq DOMAIN zone
    THEN LET touch_score == RatMin(Rat(zone["touch_count"], 5), <<1, 1>>)
             volume_score == RatMin(Rat(zone["total_volume"],
                                        zone["total_volume"] + VolumeScale),
                                    <<1, 1>>)
             width_score == RatMax(<<0, 1>>,
                                   RatAdd(<<1, 1>>,
                                          RatMul(<<-1, 2>>, zone["width_pct"])))
             strength == RatAdd(RatMul(touch_score, <<2, 5>>),
                                RatAdd(RatMul(volume_score, <<3, 10>>),
                                       RatMul(width_score, <<3, 10>>)))
         IN  RatMin(strength, <<1, 1>>)
    ELSE Half

\* one round of "for zone in all_zones": strength, then distance_pct, then width_pct
ScoreZone(zone, price) ==
    LET z1 == SetKey(zone, "strength", _calculate_zone_strength(zone))
        z2 == SetKey(z1, "distance_pct", Rat((zone.middle - price) * 100, price))
    IN  SetKey(z2, "width_pct", Rat((zone.upper - zone.lower) * 100, zone.middle))

ScoreZones(zones, price) == [k \in 1..Len(zones) |-> ScoreZone(zones[k], price)]

\* faulty variant: the resistance list is not filtered by the current price
KeepAll(zones, price) == zones

RECURSIVE FilterResistance(_, _)
FilterResistance(zones, price) ==
    IF zones = <<>> THEN <<>>
    ELSE (IF Head(zones).middle > price THEN <<Head(zones)>> ELSE <<>>)
         \o FilterResistance(Tail(zones), price)

RECURSIVE FilterSupport(_, _)
FilterSupport(zones, price) ==
    IF zones = <<>> THEN <<>>
    ELSE (IF Head(zones).middle < price THEN <<Head(zones)>> ELSE <<>>)
         \o FilterSupport(Tail(zones), price)

\* list.sort(key=distance_pct, reverse=...), stable
RECURSIVE InsertByDistance(_, _, _)
InsertByDistance(sorted, x, reverse) ==
    IF sorted = <<>> THEN <<x>>
    ELSE IF (IF reverse
             THEN RatLeq(x["distance_pct"], Head(sorted)["distance_pct"])
             ELSE RatLeq(Head(sorted)["distance_pct"], x["distance_pct"]))
         THEN <<Head(sorted)>> \o InsertByDistance(Tail(sorted), x, reverse)
         ELSE <<x>> \o sorted

RECURSIVE SortByDistanceFrom(_, _, _, _)
SortByDistanceFrom(seq, k, acc, reverse) ==
    IF k > Len(seq) THEN acc
    ELSE SortByDistanceFrom(seq, k + 1, InsertByDistance(acc, seq[k], reverse),
                            reverse)

SortByDistance(seq, reverse) == SortByDistanceFrom(seq, 1, <<>>, reverse)

TopNearest == 5

\* faulty variant: the slice keeps the end of the sorted list
TakeLast(seq, n) == SubSeq(seq, Max2(1, Len(seq) - n + 1), Len(seq))

Take(seq, n) == SubSeq(seq, 1, Min2(n, Len(seq)))

\* faulty variant: the except clause returns no all_zones key
EmptyLists == [resistance_zones |-> <<>>, support_zones |-> <<>>]

EmptyZones == [resistance_zones |-> <<>>, support_zones |-> <<>>, all_zones |-> <<>>]

\* x['price'] or pivot['timestamp'] raises KeyError in _group_pivots_into_zones,
\* which has no except clause of its own
MalformedPivots(ps) ==
    \E side \in {"pivot_highs", "pivot_lows"} :
        \E k \in 1..Len(Get(ps, side, <<>>)) :
            ~({"price", "timestamp"} \subseteq DOMAIN Get(ps, side, <<>>)[k])

\* current_price is a Python float, as annotated: a division by zero raises
create_pivot_zones(ps, price, d, tolerance, min, include) ==
    IF MalformedPivots(ps) THEN EmptyZones ELSE
    LET pivot_resistance == _group_pivots_into_zones(Get(ps, "pivot_highs", <<>>),
                                                     price, tolerance, min, TRUE)
        pivot_support == _group_pivots_into_zones(Get(ps, "pivot_lows", <<>>),
                                                  price, tolerance, min, FALSE)
        merge == include /\ Len(d) > 0
        touching_resistance ==
            _find_touching_levels(d, TRUE, tolerance, TouchingMinTouches(min))
        touching_support ==
            _find_touching_levels(d, FALSE, tolerance, TouchingMinTouches(min))
        resistance == IF merge
                      THEN MergeTouchingZones(pivot_resistance, touching_resistance, 1)
                      ELSE pivot_resistance
        support == IF merge
                   THEN MergeTouchingZones(pivot_support, touching_support, 1)
                   ELSE pivot_support
        \* ZeroDivisionError in the scoring loop, caught by the except clause
        raises == \E k \in 1..Len(resistance \o support) :
                     price = 0 \/ (resistance \o support)[k].middle = 0
    IN  IF raises THEN EmptyZones
        ELSE LET resistance_zones == ScoreZones(resistance, price)
                 support_zones == ScoreZones(support, price)
             IN  [resistance_zones |->
                      Take(SortByDistance(FilterResistance(resistance_zones, price),
                                          FALSE), TopNearest),
                  support_zones |->
                      Take(SortByDistance(FilterSupport(support_zones, price),
                                          TRUE), TopNearest),
                  all_zones |-> resistance_zones \o support_zones]

(***************************************************************************)
(* Breakout confidence sub-scores                                          *)
(***************************************************************************)
\* Volumes on a geometric grid of ratio 1.5, so that math.log(ratio, 1.5) is an
\* integer whenever ratio >= 1
VolumeGrid == {0, 16000, 24000, 36000, 54000}

\* math.log(ratio, 1.5): exact for ratio = 1.5^k, k >= 0; the logarithm of any
\* other ratio is irrational and is rounded up to the next quarter (1.1^4,
\* 1.2^2 and 1.35^4/1.5^2 are below 1.5), so that the scores built on it are
\* upper bounds of the code's
RECURSIVE Log15(_)
Log15(ratio) ==
    IF RatLeq(ratio, <<1, 1>>) THEN <<0, 1>>
    ELSE IF RatLeq(<<3, 2>>, ratio)
         THEN RatAdd(<<1, 1>>, Log15(RatMul(ratio, <<2, 3>>)))
    ELSE IF RatLeq(ratio, <<11, 10>>) THEN <<1, 4>>
    ELSE IF RatLeq(ratio, <<6, 5>>) THEN <<1, 2>>
    ELSE IF RatLeq(ratio, <<27, 20>>) THEN <<3, 4>>
    ELSE <<1, 1>>

RECURSIVE SumClippedRatios(_, _)
SumClippedRatios(current_volume, avgs) ==
    IF avgs = <<>> THEN <<0, 1>>
    ELSE RatAdd(RatMin(Rat(current_volume, Head(avgs)), <<2, 1>>),
                SumClippedRatios(current_volume, Tail(avgs)))

\* faulty variant: the bonus compares with the smallest average
RECURSIVE MinAvg(_)
MinAvg(avgs) ==
    IF Len(avgs) = 1 THEN Head(avgs) ELSE Min2(Head(avgs), MinAvg(Tail(avgs)))

\* max_avg = max(avgs)
RECURSIVE MaxAvg(_)
MaxAvg(avgs) ==
    IF Len(avgs) = 1 THEN Head(avgs) ELSE Max2(Head(avgs), MaxAvg(Tail(avgs)))

\* faulty variant: the sum of base score and bonus is not capped at 1.0
_volume_strength_uncapped(current_volume, volume_avg_20, volume_avg_50, volume_avg_200) ==
    LET avgs == SelectSeq(<<volume_avg_20, volume_avg_50, volume_avg_200>>,
                          LAMBDA v : v > 0)
    IN  IF avgs = <<>> \/ current_volume <= 0 THEN <<0, 1>>
        ELSE RatAdd(RatMin(RatMul(SumClippedRatios(current_volume, avgs),
                                  <<1, 2 * Len(avgs)>>), <<1, 1>>),
                    RatMin(RatMul(<<1, 10>>,
                                  Log15(Rat(current_volume, MaxAvg(avgs)))),
                           <<1, 5>>))

_calculate_volume_strength(current_volume, volume_avg_20, volume_avg_50, volume_avg_200) ==
    LET avgs == SelectSeq(<<volume_avg_20, volume_avg_50, volume_avg_200>>,
                          LAMBDA v : v > 0)
    IN  IF avgs = <<>> \/ current_volume <= 0 THEN <<0, 1>>
        ELSE LET base_score ==
                     RatMin(RatMul(SumClippedRatios(current_volume, avgs),
                                   <<1, 2 * Len(avgs)>>), <<1, 1>>)
                 ratio == Rat(current_volume, MaxAvg(avgs))
                 bonus == IF RatLess(<<1, 1>>, ratio)
                          THEN RatMin(RatMul(<<1, 10>>, Log15(ratio)),
                                      <<1, 5>>)
                          ELSE <<0, 1>>
             IN  RatMin(RatAdd(base_score, bonus), <<1, 1>>)

\* recent_lows[-3:]
LastThree(seq) == SubSeq(seq, Max2(1, Len(seq) - 2), Len(seq))

\* sum(1 for p in values if p > bound)
CountAbove(values, bound) == Cardinality({k \in 1..Len(values) : values[k] > bound})

\* sum(1 for p in values if p < bound)
CountBelow(values, bound) == Cardinality({k \in 1..Len(values) : values[k] < bound})

_calculate_breakout_pattern(price, zone_middle, zone_upper, zone_lower, recent_highs, recent_lows) ==
    LET is_resistance == price > zone_middle
        is_support == price < zone_middle
        up == (IF price > zone_upper THEN 5 ELSE 0)
              + (IF CountAbove(recent_highs, zone_upper) >= 2
                 THEN 3 ELSE 0)
              + (IF ~(\E k \in 1..Len(LastThree(recent_lows)) :
                         /\ Len(recent_lows) >= 3
                         /\ LastThree(recent_lows)[k] < zone_lower)
                 THEN 2 ELSE 0)
        down == (IF price < zone_lower THEN 5 ELSE 0)
                + (IF CountBelow(recent_lows, zone_lower) >= 2
                   THEN 3 ELSE 0)
                + (IF ~(\E k \in 1..Len(LastThree(recent_highs)) :
                           /\ Len(recent_highs) >= 3
                           /\ LastThree(recent_highs)[k] > zone_upper)
                   THEN 2 ELSE 0)
        score == IF is_resistance THEN Rat(up, 10)
                 ELSE IF is_support THEN Rat(down, 10)
                 ELSE <<0, 1>>
    IN  RatMin(score, <<1, 1>>)

\* calculate_breakout_confidence: volume_20/50/200 are means of the last 20, 50
\* and 200 (or all) volumes and current_volume is the last of them
VolumeArgs ==
    {a \in [current_volume : VolumeGrid, volume_avg_20 : VolumeGrid,
            volume_avg_50 : VolumeGrid, volume_avg_200 : VolumeGrid] :
        /\ a.current_volume <= 20 * a.volume_avg_20
        /\ 20 * a.volume_avg_20 <= 50 * a.volume_avg_50
        /\ 50 * a.volume_avg_50 <= 200 * a.volume_avg_200}

PatternPrices == {198, 201, 203, 206}

PatternZone == [middle |-> 202, upper |-> 204, lower |-> 200]

RecentBars == {b \in [high : PatternPrices, low : PatternPrices] : b.low <= b.high}

\* the last n rows b of the series and its last close c
PatternArgs(n, b, c) ==
    [current_price |-> c,
     zone_middle |-> PatternZone.middle,
     zone_upper |-> PatternZone.upper,
     zone_lower |-> PatternZone.lower,
     recent_highs |-> [i \in 1..n |-> b[i].high],
     recent_lows |-> [i \in 1..n |-> b[i].low]]

(***************************************************************************)
(* calculate_breakout_confidence                                           *)
(***************************************************************************)
\* scores in tenths; macd and macd_signal are only compared with each other
\* faulty variant: the bullish and the bearish branch are exchanged
_momentum_strength_swapped(rsi, macd, macd_signal, is_resistance_break) ==
    LET bullish == (IF 50 <= rsi /\ rsi <= 70 THEN 3
                    ELSE IF rsi > 70 THEN 1 ELSE 0)
                   + (IF macd > macd_signal THEN 5 ELSE 0)
        bearish == (IF 30 <= rsi /\ rsi <= 50 THEN 3
                    ELSE IF rsi < 30 THEN 1 ELSE 0)
                   + (IF macd < macd_signal THEN 5 ELSE 0)
    IN  Rat(IF is_resistance_break THEN bearish ELSE bullish, 10)

_calculate_momentum_strength(rsi, macd, macd_signal, is_resistance_break) ==
    LET bullish == (IF 50 <= rsi /\ rsi <= 70 THEN 3
                    ELSE IF rsi > 70 THEN 1 ELSE 0)
                   + (IF macd > macd_signal THEN 3 ELSE 0)
                   + (IF macd - macd_signal > 0 THEN 2 ELSE 0)
        bearish == (IF 30 <= rsi /\ rsi <= 50 THEN 3
                    ELSE IF rsi < 30 THEN 1 ELSE 0)
                   + (IF macd < macd_signal THEN 3 ELSE 0)
                   + (IF macd - macd_signal < 0 THEN 2 ELSE 0)
    IN  RatMin(Rat(IF is_resistance_break THEN bullish ELSE bearish, 10), <<1, 1>>)

_get_confidence_interpretation(score) ==
    IF RatLeq(<<3, 4>>, score)
    THEN "Very High Confidence - Strong breakout signal"
    ELSE IF RatLeq(<<3, 5>>, score)
    THEN "High Confidence - Good breakout potential"
    ELSE IF RatLeq(<<9, 20>>, score)
    THEN "Moderate Confidence - Wait for confirmation"
    ELSE IF RatLeq(<<3, 10>>, score)
    THEN "Low Confidence - Weak signal"
    ELSE "Very Low Confidence - False breakout likely"

\* df.tail(n)
TailRows(d, n) == SubSeq(d, Max2(1, Len(d) - n + 1), Len(d))

RECURSIVE SumVolumes(_)
SumVolumes(d) == IF d = <<>> THEN 0 ELSE Head(d).volume + SumVolumes(Tail(d))

\* df['volume'].mean(), an integer for the series of the model
MeanVolume(d) == SumVolumes(d) \div Len(d)

\* faulty variant: the pattern is scored only when the flag names the side of
\* the zone the last close is on
PatternByFlag(zone, d, is_resistance) ==
    IF is_resistance = (d[Len(d)].close > zone.middle)
    THEN _calculate_breakout_pattern(d[Len(d)].close, zone.middle, zone.upper,
                                     zone.lower, High(TailRows(d, 10)),
                                     Low(TailRows(d, 10)))
    ELSE <<0, 1>>

\* the call of _calculate_breakout_pattern: is_resistance is not passed on
PatternOfLastClose(zone, d, is_resistance) ==
    _calculate_breakout_pattern(d[Len(d)].close, zone.middle, zone.upper,
                                zone.lower, High(TailRows(d, 10)),
                                Low(TailRows(d, 10)))

ConfidenceError ==
    [confidence_score |-> <<0, 1>>, breakdown |-> <<>>,
     interpretation |-> "Error calculating confidence"]

\* the weighted sum is exact here; the code's float sum differs from it by
\* rounding only
calculate_breakout_confidence(zone, indicators, d, is_resistance) ==
    IF Len(d) = 0 \/ ~({"middle", "upper", "lower"} \subseteq DOMAIN zone)
    THEN ConfidenceError
    ELSE
    LET volume_200 == IF Len(d) >= 200 THEN MeanVolume(TailRows(d, 200))
                      ELSE MeanVolume(d)
        volume_50 == MeanVolume(TailRows(d, Min2(50, Len(d))))
        volume_20 == MeanVolume(TailRows(d, Min2(20, Len(d))))
        current_volume == d[Len(d)].volume
        volume_score == _calculate_volume_strength(current_volume, volume_20,
                                                   volume_50, volume_200)
        zone_score == Get(zone, "strength", Half)
        rsi == Get(indicators, "rsi_14", 50)
        macd == Get(indicators, "macd", 0)
        macd_signal == Get(indicators, "macd_signal", 0)
        momentum_score == _calculate_momentum_strength(rsi, macd, macd_signal,
                                                       is_resistance)
        pattern_score == PatternOfLastClose(zone, d, is_resistance)
        confidence == RatAdd(RatAdd(RatMul(volume_score, <<1, 4>>),
                                    RatMul(zone_score, <<1, 4>>)),
                             RatAdd(RatMul(momentum_score, <<1, 4>>),
                                    RatMul(pattern_score, <<1, 4>>)))
    IN  [confidence_score |-> confidence,
         breakdown |-> [volume_strength |-> volume_score,
                        zone_strength |-> zone_score,
                        momentum_strength |-> momentum_score,
                        pattern_strength |-> pattern_score],
         interpretation |-> _get_confidence_interpretation(confidence)]

\* Inputs of calculate_breakout_confidence. The zones are produced by the
\* engine from two bars (102/98 and 98/98); macd values are in tenths.
MaxRows == 3

ConfidenceZones ==
    LET d == Series(2, <<[high |-> 102, low |-> 98], [high |-> 98, low |-> 98]>>, 0)
    IN  SeqToSet(create_pivot_zones(find_pivots(d, 0, 0), 96, d, 5, 1,
                                    FALSE).all_zones)

ConfidenceBars == {b \in [high : {96, 105}, low : {96, 105}] : b.low <= b.high}

ConfidenceCloses == {96, 100, 105}

ConfidenceVolumes == {0, 15000, 16500}

RsiValues == {25, 60}

MacdValues == {10}

SignalValues == {5}

IndicatorKeys == {"rsi_14", "macd", "macd_signal"}

\* a snapshot holds only the keys of the indicators that are available
Snapshot(present, rsi, macd, macd_signal) ==
    [k \in present |->
        IF k = "rsi_14" THEN rsi ELSE IF k = "macd" THEN macd ELSE macd_signal]

\* the series of n bars b with volumes v whose last close is c
ConfidenceSeries(n, b, v, c) ==
    [i \in 1..n |-> [timestamp |-> i, high |-> b[i].high, low |-> b[i].low,
                     close |-> IF i = n THEN c ELSE b[i].high,
                     volume |-> v[i]]]

(***************************************************************************)
(* Inputs of create_pivot_zones called on pivots of the caller's own       *)
(***************************************************************************)
MaxTouches == 5

MergePrices == {204, 206, 208}

SpacedPrices == {200, 210, 220, 230, 240, 250, 260}

SuppliedPrices == {190, 235, 270}

\* ascending price sequences of length n
SortedPrices(n, prices) ==
    {t \in [1..n -> prices] : \A i \in 1..(n - 1) : t[i] <= t[i + 1]}

\* n bars with high = low = t[i], no volume
TouchSeries(n, t) ==
    [i \in 1..n |-> [timestamp |-> i, high |-> t[i], low |-> t[i], volume |-> 0]]

RECURSIVE PivotsOf(_, _, _)
PivotsOf(d, keep, i) ==
    IF i >= Len(d) THEN <<>>
    ELSE (IF i \in keep THEN <<PivotHighRecord(d, i)>> ELSE <<>>)
         \o PivotsOf(d, keep, i + 1)

\* bars touching a few close levels, some of them pivot highs
MergeArgs(n, t, keep, tolerance, min) ==
    [pivots |-> [pivot_highs |-> PivotsOf(TouchSeries(n, t), keep, 0),
                 pivot_lows |-> <<>>],
     current_price |-> 200,
     df |-> TouchSeries(n, t),
     tolerance_percent |-> tolerance,
     min_touches |-> min,
     include_touching_levels |-> TRUE]

RECURSIVE PivotsAt(_, _)
PivotsAt(prices, i) ==
    IF prices = {} THEN <<>>
    ELSE LET p == CHOOSE q \in prices : \A r \in prices : q <= r
         IN  <<[index |-> i, price |-> p, timestamp |-> i + 1, volume |-> 0]>>
             \o PivotsAt(prices \ {p}, i + 1)

\* pivots far apart, one zone each, and no series
SpacedArgs(prices, price, tolerance, min) ==
    [pivots |-> [pivot_highs |-> PivotsAt(prices, 0),
                 pivot_lows |-> PivotsAt(prices, 0)],
     current_price |-> price,
     df |-> <<>>,
     tolerance_percent |-> tolerance,
     min_touches |-> min,
     include_touching_levels |-> TRUE]

\* inputs on which a step of the pipeline raises
FailingArgs ==
    LET d == TouchSeries(3, <<204, 204, 204>>)
        good == [pivot_highs |-> PivotsOf(d, {0, 1}, 0), pivot_lows |-> <<>>]
        args(ps, price, series) ==
            [pivots |-> ps, current_price |-> price, df |-> series,
             tolerance_percent |-> 1, min_touches |-> 1,
             include_touching_levels |-> TRUE]
    IN  {args(good, 0, d),
         args([pivot_highs |-> PivotsAt({0}, 0), pivot_lows |-> <<>>], 200, <<>>),
         args([pivot_highs |-> <<[index |-> 0, timestamp |-> 1, volume |-> 0]>>,
               pivot_lows |-> <<>>], 200, d),
         args(good, 200,
              [i \in 1..3 |-> [timestamp |-> i, low |-> 204, volume |-> 0]])}

(***************************************************************************)
(* The two scenarios of the specification                                  *)
(***************************************************************************)
\* 20 bars, every price 100, constant volume
FlatSeries ==
    [i \in 1..20 |-> [timestamp |-> i, high |-> 100, low |-> 100,
                      volume |-> 1000000]]

SecondSpikes == {100, 130, 152}

\* 27 bars: the high spikes to 150 at bar 10 and to 'second' at bar 21
SpikeSeries(second) ==
    [i \in 1..27 |-> [timestamp |-> i,
                      high |-> IF i = 11 THEN 150
                               ELSE IF i = 22 THEN second ELSE 100,
                      low |-> 90,
                      volume |-> 1000000]]

\* 9 bars: pivot highs of 210 and 204 (windows of 2 bars) more than 2% apart,
\* and a high of 206 between them that is no pivot
BridgedHighs == <<200, 200, 210, 206, 200, 200, 204, 200, 200>>

BridgedSeries ==
    [i \in 1..Len(BridgedHighs) |-> [timestamp |-> i, high |-> BridgedHighs[i],
                                      low |-> 190, volume |-> 1000000]]

ScenarioBars == {<<2, 2>>, <<5, 5>>}

ScenarioPrices == {96, 100}

(***************************************************************************)
(* Inputs and constants of SurgeMonitor                                     *)
(***************************************************************************)
Tickers == {"AAA", "BBB"}

\* the clock counts periods of ten minutes
MaxClock == 3

\* 1800 seconds, in periods of ten minutes
COOLDOWN == 3

\* max_concurrent of monitor_tickers when run_monitoring_cycle calls it
DEFAULT_MAX_CONCURRENT == 5

\* max_concurrent of a caller of monitor_tickers
ConcurrencyChoices == {1, 2}

\* monitored_tickers.yaml: the list is used as written, AAA is listed twice
ConfiguredTickers == <<"AAA", "BBB", "AAA">>

NoTime == -1

\* self.last_surge_timestamps = {}
NoTimestamps == [ticker \in Tickers |-> NoTime]

NoCycle ==
    [phase |-> "idle", number |-> 0, started |-> 0, through |-> "none",
     max_concurrent |-> 0, perform_deep_analysis |-> FALSE]

NoPrevious == [started |-> 0, through |-> "none", notified |-> {}]

QueuedTasks == [i \in 1..Len(ConfiguredTickers) |-> [pc |-> "queued", outcome |-> "pending",
                                           notification |-> "none"]]

Results == {"result", "result_without_analysis"}

(***************************************************************************)
(* State machine                                                           *)
(***************************************************************************)
Init ==
    /\ pc = "start"
    /\ df = <<>>
    /\ left_bars = 0
    /\ right_bars = 0
    /\ pivots = None
    /\ current_price = 0
    /\ tolerance_percent = 0
    /\ min_touches = 0
    /\ include_touching_levels = FALSE
    /\ result = None
    /\ rerun = None
    /\ volume_args = None
    /\ volume_strength = None
    /\ pattern_args = None
    /\ pattern_strength = None
    /\ confidence_args = None
    /\ breakout_confidence = None
    /\ support_resistance = None
    /\ workers = None
    /\ analyzer = <<>>
    /\ clock = 0
    /\ tickers = <<>>
    /\ last_surge_timestamps = NoTimestamps
    /\ cycle = NoCycle
    /\ tasks = <<>>
    /\ semaphore = 0
    /\ position = 0
    /\ sent = {}
    /\ cycle_result = "pending"
    /\ previous = NoPrevious
    /\ stages = <<>>
    /\ flow_results = None
    /\ names = <<>>
    /\ inodes = <<>>
    /\ savers = <<>>
    /\ loader = <<>>

LoadSeries ==
    /\ pc = "start"
    /\ \E n \in 1..MaxLen :
          \E b \in [1..n -> Bars], v \in Volumes : df' = Series(n, b, v)
    /\ pc' = "loaded"
    /\ UNCHANGED <<left_bars, right_bars, pivots, current_price,
                   tolerance_percent, min_touches, include_touching_levels,
                   result, rerun, score_vars, app_vars>>

LoadScenario ==
    /\ pc = "start"
    /\ df' \in {FlatSeries, BridgedSeries}
                  \cup {SpikeSeries(second) : second \in SecondSpikes}
    /\ pc' = "scenario"
    /\ UNCHANGED <<left_bars, right_bars, pivots, current_price,
                   tolerance_percent, min_touches, include_touching_levels,
                   result, rerun, score_vars, app_vars>>

FindPivots ==
    /\ pc \in {"loaded", "scenario"}
    /\ \E left \in 0..5, right \in 0..5 :
          /\ IF pc = "loaded" THEN left <= MaxBars /\ right <= MaxBars
                              ELSE <<left, right>> \in ScenarioBars
          /\ left_bars' = left
          /\ right_bars' = right
          /\ pivots' = find_pivots(df, left, right)
    /\ pc' = IF pc = "loaded" THEN "pivots" ELSE "scenario_pivots"
    /\ UNCHANGED <<df, current_price, tolerance_percent, min_touches,
                   include_touching_levels, result, rerun, score_vars, app_vars>>

\* sorted(pivots, ...) builds a new list: the caller's list is left as it was
LeftBySortInPlace(ps, reverse) ==
    IF \A k \in 1..Len(ps) : "price" \in DOMAIN ps[k]
    THEN SortByPrice(ps, reverse) ELSE ps

LeftBySorted(ps, reverse) == ps

\* the caller's pivots after create_pivot_zones returned
PivotsLeft(ps) ==
    [side \in DOMAIN ps |-> LeftBySorted(ps[side], side = "pivot_highs")]

CreatePivotZones ==
    /\ pc \in {"pivots", "scenario_pivots"}
    /\ \E price \in CurrentPrices \cup ScenarioPrices,
          tolerance \in TolerancePercents,
          min \in MinTouchesChoices, include \in BOOLEAN :
          /\ IF pc = "pivots" THEN price \in CurrentPrices
                              ELSE price \in ScenarioPrices
          /\ current_price' = price
          /\ tolerance_percent' = tolerance
          /\ min_touches' = min
          /\ include_touching_levels' = include
          /\ result' = create_pivot_zones(pivots, price, df, tolerance, min, include)
    /\ pivots' = PivotsLeft(pivots)
    /\ pc' = IF pc = "pivots" THEN "zones" ELSE "scenario_zones"
    /\ UNCHANGED <<df, left_bars, right_bars, rerun, score_vars, app_vars>>

\* create_pivot_zones called on pivots that the caller supplies
CreatePivotZonesSupplied ==
    /\ pc = "start"
    /\ \E a \in FailingArgs
            \cup {MergeArgs(n, t, keep, tolerance, min) :
                    n \in {MaxTouches}, t \in SortedPrices(MaxTouches, MergePrices),
                    keep \in SUBSET (0..(MaxTouches - 1)),
                    tolerance \in {1}, min \in MinTouchesChoices}
            \cup {SpacedArgs(prices, price, tolerance, min) :
                    prices \in SUBSET SpacedPrices, price \in SuppliedPrices,
                    tolerance \in {1}, min \in {1}} :
          /\ df' = a.df
          /\ current_price' = a.current_price
          /\ tolerance_percent' = a.tolerance_percent
          /\ min_touches' = a.min_touches
          /\ include_touching_levels' = a.include_touching_levels
          /\ result' = create_pivot_zones(a.pivots, a.current_price, a.df,
                                          a.tolerance_percent, a.min_touches,
                                          a.include_touching_levels)
          /\ pivots' = PivotsLeft(a.pivots)
    /\ pc' = "supplied"
    /\ UNCHANGED <<left_bars, right_bars, rerun, score_vars, app_vars>>

\* a second call with the arguments of the first
CreatePivotZonesAgain ==
    /\ pc \in {"zones", "supplied", "scenario_zones"}
    /\ rerun' = create_pivot_zones(pivots, current_price, df, tolerance_percent,
                                   min_touches, include_touching_levels)
    /\ pivots' = PivotsLeft(pivots)
    /\ pc' = "again"
    /\ UNCHANGED <<df, left_bars, right_bars, current_price, tolerance_percent,
                   min_touches, include_touching_levels, result, score_vars, app_vars>>

CalculateVolumeStrength ==
    /\ pc = "start"
    /\ \E a \in VolumeArgs :
          /\ volume_args' = a
          /\ volume_strength' =
                 _calculate_volume_strength(a.current_volume, a.volume_avg_20,
                                            a.volume_avg_50, a.volume_avg_200)
    /\ pc' = "volume"
    /\ UNCHANGED <<app_vars, engine_vars, pattern_args, pattern_strength,
                   confidence_args, breakout_confidence>>

CalculateBreakoutPattern ==
    /\ pc = "start"
    /\ \E n \in 1..MaxRecent :
          \E b \in [1..n -> RecentBars], c \in PatternPrices :
              LET a == PatternArgs(n, b, c)
              IN  /\ b[n].low <= c
                  /\ c <= b[n].high
                  /\ pattern_args' = a
                  /\ pattern_strength' =
                         _calculate_breakout_pattern(
                             a.current_price, a.zone_middle, a.zone_upper,
                             a.zone_lower, a.recent_highs, a.recent_lows)
    /\ pc' = "pattern"
    /\ UNCHANGED <<app_vars, engine_vars, volume_args, volume_strength,
                   confidence_args, breakout_confidence>>

CalculateBreakoutConfidence ==
    /\ pc = "start"
    /\ \E n \in 1..MaxRows :
          \E b \in [1..n -> ConfidenceBars], v \in [1..n -> ConfidenceVolumes],
             c \in ConfidenceCloses, zone \in ConfidenceZones,
             present \in SUBSET IndicatorKeys, rsi \in RsiValues,
             macd \in MacdValues, macd_signal \in SignalValues,
             is_resistance \in BOOLEAN :
              LET d == ConfidenceSeries(n, b, v, c)
                  indicators == Snapshot(present, rsi, macd, macd_signal)
              IN  /\ b[n].low <= c
                  /\ c <= b[n].high
                  /\ SumVolumes(d) % n = 0
                  /\ (\E i \in 1..n : v[i] = 0) => (\A i \in 1..n : v[i] = 0)
                  /\ confidence_args' = [zone |-> zone, indicators |-> indicators,
                                         df |-> d, is_resistance |-> is_resistance]
                  /\ breakout_confidence' = calculate_breakout_confidence(
                                                zone, indicators, d, is_resistance)
    /\ pc' = "confidence"
    /\ UNCHANGED <<app_vars, engine_vars, volume_args, volume_strength,
                   pattern_args, pattern_strength>>

(***************************************************************************)
(* Properties                                                              *)
(***************************************************************************)
PivotsFound == pc \in {"pivots", "zones"}

ZonesBuilt == pc = "zones"

PivotIndices(ps) == {ps[k].index : k \in 1..Len(ps)}

Window(i, left, right) == ((i - left)..(i - 1)) \cup ((i + 1)..(i + right))

HasFullWindow(d, i, left, right) == i - left >= 0 /\ i + right <= Len(d) - 1

FlattenHigh(d, j, i) == [d EXCEPT ![j + 1].high = d[i + 1].high]

FlattenLow(d, j, i) == [d EXCEPT ![j + 1].low = d[i + 1].low]

EmittedZones ==
    SeqToSet(result.resistance_zones) \cup SeqToSet(result.support_zones)
        \cup SeqToSet(result.all_zones)

\* a zone that absorbed a touching-level zone in Step 2 holds the touches of both
Absorbed(zone) == Len(zone.pivots) > zone.touch_count

\* C1: index i is a pivot high iff high[i] is strictly greater than every high
\* in [i-left_bars, i-1] and [i+1, i+right_bars]; flattening one neighbour of
\* the window to high[i] removes i from pivot_highs; pivot lows are decided by
\* the symmetric strict-minimum rule on low.
C1_PivotStrictness ==
    PivotsFound =>
        \A i \in 0..(Len(df) - 1) :
            HasFullWindow(df, i, left_bars, right_bars) =>
                /\ i \in PivotIndices(pivots.pivot_highs)
                       <=> \A j \in Window(i, left_bars, right_bars) :
                              df[j + 1].high < df[i + 1].high
                /\ i \in PivotIndices(pivots.pivot_lows)
                       <=> \A j \in Window(i, left_bars, right_bars) :
                              df[j + 1].low > df[i + 1].low
                /\ \A j \in Window(i, left_bars, right_bars) :
                      /\ i \notin PivotIndices(
                             find_pivots(FlattenHigh(df, j, i),
                                         left_bars, right_bars).pivot_highs)
                      /\ i \notin PivotIndices(
                             find_pivots(FlattenLow(df, j, i),
                                         left_bars, right_bars).pivot_lows)

C1_Witness ==
    /\ pc = "pivots"
    /\ left_bars = 1
    /\ right_bars = 1
    /\ 1 \in PivotIndices(pivots.pivot_highs)
    /\ Len(df) = 3
    /\ df[1].low = df[2].low
    /\ df[3].low > df[2].low
    /\ 1 \notin PivotIndices(pivots.pivot_lows)

\* C2: no index in [0, left_bars) or [len - right_bars, len) appears in
\* pivot_highs or pivot_lows.
C2_BoundaryExclusion ==
    PivotsFound =>
        \A i \in PivotIndices(pivots.pivot_highs) \cup PivotIndices(pivots.pivot_lows) :
            /\ ~(0 <= i /\ i < left_bars)
            /\ ~(Len(df) - right_bars <= i /\ i < Len(df))

C2_Witness ==
    /\ pc = "pivots"
    /\ left_bars = 1
    /\ right_bars = 1
    /\ Len(df) = 3
    /\ pivots.pivot_highs # <<>>
    /\ df[1].low < df[2].low
    /\ df[3].low < df[2].low
    /\ PivotIndices(pivots.pivot_highs) \cup PivotIndices(pivots.pivot_lows) = {1}

\* C3: every zone emitted by create_pivot_zones (resistance_zones,
\* support_zones, all_zones), from pivot grouping, touching-level detection or
\* a Step-2 merge, has touch_count >= min_touches.
C3_MinimumTouches ==
    ZonesBuilt => \A z \in EmittedZones : z.touch_count >= min_touches

C3_Witness ==
    /\ ZonesBuilt
    /\ include_touching_levels
    /\ min_touches = 2
    /\ \E z \in SeqToSet(result.resistance_zones) : Absorbed(z)
    /\ \E z \in SeqToSet(result.all_zones) : ~Absorbed(z)
    /\ Len(_group_pivots_into_zones(pivots.pivot_lows, current_price,
                                    tolerance_percent, 1, FALSE))
          > Len(_group_pivots_into_zones(pivots.pivot_lows, current_price,
                                         tolerance_percent, 2, FALSE))

\* C4: for every emitted zone, after grouping and Step-2 merging, the price of
\* every touch of its provenance list lies within [zone.lower, zone.upper].
C4_Containment ==
    ZonesBuilt =>
        \A z \in EmittedZones :
            \A k \in 1..Len(z.pivots) :
                z.lower <= z.pivots[k].price /\ z.pivots[k].price <= z.upper

C4_Witness ==
    /\ ZonesBuilt
    /\ \E z \in EmittedZones :
          /\ Absorbed(z)
          /\ z.lower < z.upper
          /\ \E k \in 1..Len(z.pivots) : z.pivots[k].price = z.lower
          /\ \A k \in 1..z.touch_count : z.pivots[k].price > z.lower

\* C5: each zone of resistance_zones has middle > current_price and each zone
\* of support_zones has middle < current_price, also after a Step-2 merge
\* recomputed the middle.
C5_SideSeparation ==
    ZonesBuilt =>
        /\ \A z \in SeqToSet(result.resistance_zones) : z.middle > current_price
        /\ \A z \in SeqToSet(result.support_zones) : z.middle < current_price

C5_Witness ==
    /\ ZonesBuilt
    /\ \E z \in SeqToSet(result.resistance_zones) : Absorbed(z)
    /\ result.support_zones # <<>>
    /\ Len(result.all_zones)
          > Len(result.resistance_zones) + Len(result.support_zones)

StrengthFormula(zone) ==
    LET width_pct == Rat((zone.upper - zone.lower) * 100, zone.middle)
        touch == RatMin(Rat(zone.touch_count, 5), <<1, 1>>)
        volume == Rat(zone.total_volume, zone.total_volume + 1000000)
        width == RatMax(<<0, 1>>, RatAdd(<<1, 1>>, RatMul(<<-1, 2>>, width_pct)))
    IN  RatMin(<<1, 1>>, RatAdd(RatMul(<<2, 5>>, touch),
                                RatAdd(RatMul(<<3, 10>>, volume),
                                       RatMul(<<3, 10>>, width))))

\* C6: every zone of all_zones carries strength = min(1, 0.4*min(touch_count/5, 1)
\* + 0.3*total_volume/(total_volume + 1_000_000) + 0.3*max(0, 1 - width_pct/2))
\* with width_pct = (upper - lower)/middle*100.
C6_StrengthFormula ==
    ZonesBuilt =>
        \A z \in SeqToSet(result.all_zones) : z.strength = StrengthFormula(z)

\* C7 as stated: in Step 1 the reference price tested against the next pivot
\* (the open zone's middle) is the count-weighted running average of the pivot
\* prices already merged, not the midpoint of the bounds.
C7_WeightedAverageReference ==
    (ZonesBuilt /\ ~include_touching_levels) =>
        \A z \in SeqToSet(result.all_zones) :
            z.middle * Len(z.pivots) = SumPrices(z.pivots)

\* upper + lower over the first n pivots of a group: twice the midpoint
TwiceMidpoint(ps, n) ==
    LET prices == {ps[k].price : k \in 1..n}
    IN  (CHOOSE hi \in prices : \A q \in prices : q <= hi)
            + (CHOOSE lo \in prices : \A q \in prices : lo <= q)

AcceptedAgainstMidpoint(zone, tolerance) ==
    \A n \in 2..Len(zone.pivots) :
        Abs(2 * zone.pivots[n].price - TwiceMidpoint(zone.pivots, n - 1)) * 100
            <= TwiceMidpoint(zone.pivots, n - 1) * tolerance

RejectedAgainstMidpoint(groups, tolerance) ==
    \A g \in 1..(Len(groups) - 1) :
        Abs(2 * groups[g + 1].pivots[1].price
                - TwiceMidpoint(groups[g].pivots, Len(groups[g].pivots))) * 100
            > TwiceMidpoint(groups[g].pivots, Len(groups[g].pivots)) * tolerance

MiddleIsMidpoint(zone) ==
    2 * zone.middle = TwiceMidpoint(zone.pivots, Len(zone.pivots))

\* C7 (amended): in Step 1 the reference price tested against the next pivot is
\* the midpoint of the open zone's bounds, (upper + lower)/2 over the pivots
\* merged so far: every merged pivot was within tolerance of that midpoint, the
\* pivot that opens the next group was not, and a grouped zone's middle is the
\* midpoint of its pivots' extreme prices.
C7_MidpointReference ==
    ZonesBuilt =>
        /\ \A is_resistance \in BOOLEAN :
              LET groups == _group_pivots_into_zones(
                                IF is_resistance THEN pivots.pivot_highs
                                                 ELSE pivots.pivot_lows,
                                current_price, tolerance_percent, 1, is_resistance)
              IN  /\ \A g \in 1..Len(groups) :
                        /\ AcceptedAgainstMidpoint(groups[g], tolerance_percent)
                        /\ MiddleIsMidpoint(groups[g])
                  /\ RejectedAgainstMidpoint(groups, tolerance_percent)
        /\ ~include_touching_levels =>
              \A z \in SeqToSet(result.all_zones) :
                  /\ AcceptedAgainstMidpoint(z, tolerance_percent)
                  /\ MiddleIsMidpoint(z)

C7_Witness ==
    /\ ZonesBuilt
    /\ ~include_touching_levels
    /\ min_touches = 1
    /\ \E z \in SeqToSet(result.resistance_zones) :
          /\ Len(z.pivots) >= 3
          /\ z.middle * Len(z.pivots) # SumPrices(z.pivots)
    /\ Len(result.all_zones) >= 3

\* C8: for every emitted zone, latest_touch is the most recent timestamp among
\* the touches of its provenance list, also after it absorbed a touching-level
\* zone in Step 2.
C8_LatestTouch ==
    ZonesBuilt =>
        \A z \in EmittedZones :
            /\ \E k \in 1..Len(z.pivots) : z.pivots[k].timestamp = z.latest_touch
            /\ \A k \in 1..Len(z.pivots) : z.pivots[k].timestamp <= z.latest_touch

PatternScored == pc = "pattern"

\* retests: the positions of the recent values that went back through the zone
CleanBreakBonus(values, retests) ==
    IF Len(values) >= 3 /\ \A k \in (Len(values) - 2)..Len(values) : k \notin retests
    THEN 2 ELSE 0

\* C9: with price above the zone middle the +0.2 clean-break bonus is added
\* only when at least 3 recent lows are available and none of the last 3 is
\* below lower (skipped with fewer than 3 lows); mirror rule on the last 3
\* highs against upper when price is below the middle.
C9_CleanBreakNeedsThreeValues ==
    PatternScored =>
        LET a == pattern_args
            above == (IF a.current_price > a.zone_upper THEN 5 ELSE 0)
                     + (IF Cardinality({k \in 1..Len(a.recent_highs) :
                                          a.recent_highs[k] > a.zone_upper}) >= 2
                        THEN 3 ELSE 0)
                     + CleanBreakBonus(a.recent_lows,
                                       {k \in 1..Len(a.recent_lows) :
                                           a.recent_lows[k] < a.zone_lower})
            below == (IF a.current_price < a.zone_lower THEN 5 ELSE 0)
                     + (IF Cardinality({k \in 1..Len(a.recent_lows) :
                                          a.recent_lows[k] < a.zone_lower}) >= 2
                        THEN 3 ELSE 0)
                     + CleanBreakBonus(a.recent_highs,
                                       {k \in 1..Len(a.recent_highs) :
                                           a.recent_highs[k] > a.zone_upper})
        IN  /\ a.current_price > a.zone_middle
                => pattern_strength = RatMin(Rat(above, 10), <<1, 1>>)
            /\ a.current_price < a.zone_middle
                => pattern_strength = RatMin(Rat(below, 10), <<1, 1>>)

VolumeScored == pc = "volume"

ValidAvgs(a) ==
    {v \in {a.volume_avg_20, a.volume_avg_50, a.volume_avg_200} : v > 0}

BaseScore(a) ==
    LET clipped(v) == RatMin(Rat(a.current_volume, v), <<2, 1>>)
        total == RatAdd(RatAdd(IF a.volume_avg_20 > 0 THEN clipped(a.volume_avg_20)
                                                      ELSE <<0, 1>>,
                               IF a.volume_avg_50 > 0 THEN clipped(a.volume_avg_50)
                                                      ELSE <<0, 1>>),
                        IF a.volume_avg_200 > 0 THEN clipped(a.volume_avg_200)
                                                 ELSE <<0, 1>>)
        n == Cardinality({k \in {"volume_avg_20", "volume_avg_50", "volume_avg_200"} :
                             a[k] > 0})
    IN  RatMin(RatMul(total, <<1, 2 * n>>), <<1, 1>>)

\* min(0.1 * log_1.5(current/reference), 0.2) when current > reference, else 0
BonusAgainst(current, reference) ==
    IF current > reference
    THEN RatMin(Rat(CHOOSE k \in 1..10 : Rat(current, reference) = <<3^k, 2^k>>, 10),
                <<1, 5>>)
    ELSE <<0, 1>>

\* C10 as stated: the explosive-volume bonus is driven by the largest of the
\* ratios current/avg: it is min(0.1*log_1.5(max_ratio), 0.2) > 0 whenever the
\* current volume exceeds at least one valid average, and 0 otherwise.
C10_BonusFromLargestRatio ==
    (VolumeScored /\ volume_args.current_volume > 0 /\ ValidAvgs(volume_args) # {}) =>
        LET a == volume_args
            smallest_avg == CHOOSE v \in ValidAvgs(a) : \A w \in ValidAvgs(a) : v <= w
        IN  volume_strength =
                RatMin(RatAdd(BaseScore(a),
                              BonusAgainst(a.current_volume, smallest_avg)),
                       <<1, 1>>)

\* C10 (amended): the bonus is driven by the ratio of the current volume to the
\* largest valid average (the smallest of the ratios current/avg): it is
\* min(0.1*log_1.5(current/max_avg), 0.2) > 0 when the current volume exceeds
\* every valid average, and 0 otherwise.
C10_BonusFromLargestAverage ==
    (VolumeScored /\ volume_args.current_volume > 0 /\ ValidAvgs(volume_args) # {}) =>
        LET a == volume_args
            largest_avg == CHOOSE v \in ValidAvgs(a) : \A w \in ValidAvgs(a) : w <= v
            bonus == BonusAgainst(a.current_volume, largest_avg)
        IN  /\ volume_strength = RatMin(RatAdd(BaseScore(a), bonus), <<1, 1>>)
            /\ RatLess(<<0, 1>>, bonus)
                   <=> \A v \in ValidAvgs(a) : a.current_volume > v

C10_Witness ==
    /\ VolumeScored
    /\ volume_args.current_volume > volume_args.volume_avg_20
    /\ volume_args.current_volume < volume_args.volume_avg_50
    /\ volume_args.volume_avg_50 < volume_args.volume_avg_200
    /\ RatLess(volume_strength, <<1, 1>>)


ConfidenceScored == pc = "confidence"

InUnitInterval(x) == RatLeq(<<0, 1>>, x) /\ RatLeq(x, <<1, 1>>)

SubScores ==
    {"volume_strength", "zone_strength", "momentum_strength", "pattern_strength"}

LastRow(d) == d[Len(d)]

\* C11: for every zone of the engine, every indicator snapshot (also one with
\* rsi_14, macd, macd_signal missing) and every non-empty series (also with zero
\* volume), confidence_score and each of the four sub-scores lie in [0, 1];
\* so do the volume and pattern sub-scores on averages and bars of their own.
C11_ConfidenceBounded ==
    /\ ConfidenceScored =>
           /\ InUnitInterval(breakout_confidence.confidence_score)
           /\ DOMAIN breakout_confidence.breakdown = SubScores
           /\ \A k \in SubScores : InUnitInterval(breakout_confidence.breakdown[k])
    /\ VolumeScored => InUnitInterval(volume_strength)
    /\ PatternScored => InUnitInterval(pattern_strength)

C11_Witness ==
    /\ ConfidenceScored
    /\ DOMAIN confidence_args.indicators = {}
    /\ \A i \in 1..Len(confidence_args.df) : confidence_args.df[i].volume = 0
    /\ breakout_confidence.breakdown.volume_strength = <<0, 1>>
    /\ breakout_confidence.breakdown.pattern_strength = <<1, 1>>

\* C12: pattern_strength does not depend on is_resistance: the call with the
\* opposite flag and the same zone, indicators and series returns the same
\* pattern_strength; the direction is decided by the last close against
\* zone.middle alone.
C12_PatternIgnoresFlag ==
    ConfidenceScored =>
        LET a == confidence_args
            other == calculate_breakout_confidence(a.zone, a.indicators, a.df,
                                                   ~a.is_resistance)
            pattern == breakout_confidence.breakdown.pattern_strength
            close == LastRow(a.df).close
        IN  /\ other.breakdown.pattern_strength = pattern
            /\ close = a.zone.middle => pattern = <<0, 1>>
            /\ close > a.zone.upper => RatLeq(<<1, 2>>, pattern)
            /\ close < a.zone.lower => RatLeq(<<1, 2>>, pattern)

C12_Witness ==
    /\ ConfidenceScored
    /\ ~confidence_args.is_resistance
    /\ LastRow(confidence_args.df).close > confidence_args.zone.upper
    /\ breakout_confidence.breakdown.pattern_strength = <<1, 1>>
    /\ breakout_confidence.breakdown.momentum_strength = <<0, 1>>


ZonesReturned == pc \in {"zones", "supplied", "scenario_zones"}

\* the zones of one side that enter Step 2, and the touching-level zones
PivotZonesOf(is_resistance) ==
    _group_pivots_into_zones(
        Get(pivots, IF is_resistance THEN "pivot_highs" ELSE "pivot_lows", <<>>),
        current_price, tolerance_percent, min_touches, is_resistance)

TouchingZonesOf(is_resistance) ==
    IF include_touching_levels /\ Len(df) > 0
    THEN _find_touching_levels(df, is_resistance, tolerance_percent,
                               TouchingMinTouches(min_touches))
    ELSE <<>>

\* the zones of one side once the first j touching-level zones were treated
Treated(existing, touching, j) ==
    MergeTouchingZones(existing, SubSeq(touching, 1, j), 1)

AfterTouching(is_resistance, j) ==
    Treated(PivotZonesOf(is_resistance), TouchingZonesOf(is_resistance), j)

AfterStep2(is_resistance) ==
    AfterTouching(is_resistance, Len(TouchingZonesOf(is_resistance)))

\* both sides after Step 2, resistance side first
Step2Zones ==
    [side \in BOOLEAN |->
        LET touching == TouchingZonesOf(side)
        IN  Treated(PivotZonesOf(side), touching, Len(touching))]

Intersecting(before, t) ==
    {k \in 1..Len(before) : t.lower <= before[k].upper /\ t.upper >= before[k].lower}

FirstIntersecting(before, t) ==
    CHOOSE k \in Intersecting(before, t) : \A h \in Intersecting(before, t) : k <= h

\* the three rules, for the first existing zone that t intersects
Step2Rule(before, t, after) ==
    IF Intersecting(before, t) = {} THEN after = Append(before, t)
    ELSE LET k == FirstIntersecting(before, t)
         IN  IF t.touch_count >= before[k].touch_count
             THEN /\ Len(after) = Len(before)
                  /\ \A i \in 1..Len(before) : i # k => after[i] = before[i]
                  /\ after[k].upper = Max2(before[k].upper, t.upper)
                  /\ after[k].lower = Min2(before[k].lower, t.lower)
                  /\ after[k].touch_count = Max2(before[k].touch_count, t.touch_count)
                  /\ after[k].total_volume = before[k].total_volume + t.total_volume
                  /\ after[k].pivots = before[k].pivots \o t.pivots
             ELSE after = before

\* an exception reaches the except clause of create_pivot_zones
ScoringFails(zones) ==
    \E z \in SeqToSet(zones) : current_price = 0 \/ z.middle = 0

HandlerReached ==
    \/ MalformedPivots(pivots)
    \/ ScoringFails(AfterStep2(TRUE) \o AfterStep2(FALSE))

Unscored(zone) ==
    [k \in DOMAIN zone \ {"strength", "distance_pct", "width_pct"} |-> zone[k]]

SideOf(all_zones, resistance_side, is_resistance) ==
    IF is_resistance
    THEN SubSeq(all_zones, 1, resistance_side)
    ELSE SubSeq(all_zones, resistance_side + 1, Len(all_zones))

SideOfAllZones(is_resistance) ==
    SideOf(result.all_zones, Len(AfterStep2(TRUE)), is_resistance)

\* the zones of one side that pass the filter of Step 3
Beyond(after, is_resistance) ==
    {z \in SeqToSet(SideOf(result.all_zones, Len(after[TRUE]), is_resistance)) :
        IF is_resistance THEN z.middle > current_price
                         ELSE z.middle < current_price}

\* C14: resistance_zones is exactly the (up to) 5 resistance-side zones with
\* middle > current_price of smallest distance_pct, in ascending distance_pct
\* order; support_zones is exactly the (up to) 5 support-side zones with
\* middle < current_price nearest below the price, in descending distance_pct
\* order; no zone left out of a list is nearer to the price than one kept.
C14_FiveNearest ==
    (ZonesReturned /\ ~MalformedPivots(pivots)) =>
        LET after == Step2Zones
            above == Beyond(after, TRUE)
            below == Beyond(after, FALSE)
            rz == result.resistance_zones
            sz == result.support_zones
        IN  \/ ScoringFails(after[TRUE] \o after[FALSE])
            \/ /\ Len(rz) = Min2(5, Cardinality(above))
               /\ SeqToSet(rz) \subseteq above
               /\ Cardinality(SeqToSet(rz)) = Len(rz)
               /\ \A i, j \in 1..Len(rz) :
                      i < j => RatLeq(rz[i].distance_pct, rz[j].distance_pct)
               /\ \A z \in above \ SeqToSet(rz) : \A i \in 1..Len(rz) :
                      RatLeq(rz[i].distance_pct, z.distance_pct)
               /\ Len(sz) = Min2(5, Cardinality(below))
               /\ SeqToSet(sz) \subseteq below
               /\ Cardinality(SeqToSet(sz)) = Len(sz)
               /\ \A i, j \in 1..Len(sz) :
                      i < j => RatLeq(sz[j].distance_pct, sz[i].distance_pct)
               /\ \A z \in below \ SeqToSet(sz) : \A i \in 1..Len(sz) :
                      RatLeq(z.distance_pct, sz[i].distance_pct)

C14_Witness ==
    /\ pc = "supplied"
    /\ Len(result.resistance_zones) = 5
    /\ Cardinality({z \in SeqToSet(SideOfAllZones(TRUE)) :
                       z.middle > current_price}) = 7
    /\ result.resistance_zones[1].middle = 200
    /\ result.resistance_zones[5].middle = 240

DetectorFailed ==
    /\ include_touching_levels
    /\ Len(df) > 0
    /\ MissingColumn(df, TRUE) \/ MissingColumn(df, FALSE)

WellFormedResult ==
    DOMAIN result = {"resistance_zones", "support_zones", "all_zones"}

\* C16 as stated: create_pivot_zones always returns a structure with the keys
\* resistance_zones, support_zones and all_zones, and whenever any step of the
\* pipeline failed the three lists are empty.
C16_AnyFailureEmptiesLists ==
    ZonesReturned =>
        /\ WellFormedResult
        /\ (HandlerReached \/ DetectorFailed) => result = EmptyZones

\* C16 (amended): create_pivot_zones always returns a structure with the three
\* keys; the three lists are empty when the exception reaches its own except
\* clause (malformed pivot records, a division by zero in the scoring loop); a
\* failure inside the touching-level detector only leaves that side without
\* touching-level zones, and the zones of the pivots are still returned.
C16_HandlerEmptiesLists ==
    ZonesReturned =>
        /\ WellFormedResult
        /\ MalformedPivots(pivots) => result = EmptyZones
        /\ ~MalformedPivots(pivots) =>
               LET after == Step2Zones
               IN  IF ScoringFails(after[TRUE] \o after[FALSE])
                   THEN result = EmptyZones
                   ELSE /\ \A side \in BOOLEAN :
                              (DetectorFailed /\ MissingColumn(df, side))
                                  => after[side] = PivotZonesOf(side)
                        /\ Len(result.all_zones)
                               = Len(after[TRUE]) + Len(after[FALSE])

C16_Witness ==
    /\ pc = "supplied"
    /\ current_price = 0
    /\ PivotZonesOf(TRUE) # <<>>
    /\ result = EmptyZones


ScenarioZoned == pc = "scenario_zones"

FlatScenario ==
    ScenarioZoned /\ df = FlatSeries /\ left_bars = 2 /\ right_bars = 2

NoPivots == pivots.pivot_highs = <<>> /\ pivots.pivot_lows = <<>>

\* C17 as stated: for the flat 20-bar series with left_bars = right_bars = 2,
\* find_pivots returns no pivots and create_pivot_zones (touching levels
\* included, series passed in) returns zero zones in resistance_zones,
\* support_zones and all_zones.
C17_FlatSeriesNoZones ==
    (FlatScenario /\ include_touching_levels) => (NoPivots /\ result = EmptyZones)

\* C17 (amended): for the flat 20-bar series with left_bars = right_bars = 2,
\* find_pivots returns no pivots; create_pivot_zones returns zero zones when
\* include_touching_levels is False; with touching levels included all_zones
\* holds the two touching-level zones at 100 (20 touches each), of which
\* resistance_zones / support_zones keep the one strictly above / below
\* current_price (none when current_price = 100).
C17_FlatSeriesTouchingZones ==
    FlatScenario =>
        /\ NoPivots
        /\ ~include_touching_levels => result = EmptyZones
        /\ include_touching_levels =>
               /\ Len(result.all_zones) = 2
               /\ \A z \in SeqToSet(result.all_zones) :
                      /\ z.upper = 100 /\ z.lower = 100 /\ z.middle = 100
                      /\ z.touch_count = 20
               /\ result.resistance_zones =
                      (IF 100 > current_price THEN <<result.all_zones[1]>> ELSE <<>>)
               /\ result.support_zones =
                      (IF 100 < current_price THEN <<result.all_zones[2]>> ELSE <<>>)

C17_Witness ==
    /\ FlatScenario
    /\ include_touching_levels
    /\ current_price = 100
    /\ min_touches = 2
    /\ Len(result.all_zones) = 2
    /\ result.resistance_zones = <<>>

SpikeScenario ==
    /\ ScenarioZoned
    /\ \E second \in SecondSpikes : df = SpikeSeries(second)
    /\ left_bars = 5 /\ right_bars = 5
    /\ min_touches = 1
    /\ current_price = 100

SpikePivot == PivotHighRecord(SpikeSeries(100), 10)

\* C18 as stated: for any series whose high spikes to 150 at bar 10 with all
\* other highs of bars 5..15 below 140, find_pivots(5, 5) reports a pivot high at
\* index 10 with price 150, and create_pivot_zones(min_touches=1,
\* current_price=100) returns in resistance_zones a zone containing that pivot
\* with middle = 150 and distance_pct = 50.
C18_SpikeZoneAt150 ==
    SpikeScenario =>
        /\ SpikePivot.price = 150
        /\ SpikePivot \in SeqToSet(pivots.pivot_highs)
        /\ \E z \in SeqToSet(result.resistance_zones) :
               /\ SpikePivot \in SeqToSet(z.pivots)
               /\ z.middle = 150
               /\ z.distance_pct = <<50, 1>>

\* C18 (amended): for any such series find_pivots(5, 5) reports a pivot high at
\* index 10 with price 150, and the zone of resistance_zones that contains it
\* has lower <= 150 <= upper, middle = (upper + lower)/2 and distance_pct =
\* middle - 100; middle = 150 and distance_pct = 50 hold when every touch of the
\* zone has price 150 (no other pivot high within tolerance of the spike).
C18_SpikeZoneAroundPivot ==
    SpikeScenario =>
        /\ SpikePivot.price = 150
        /\ SpikePivot \in SeqToSet(pivots.pivot_highs)
        /\ \E z \in SeqToSet(result.resistance_zones) :
               /\ SpikePivot \in SeqToSet(z.pivots)
               /\ z.lower <= 150 /\ 150 <= z.upper
               /\ 2 * z.middle = z.upper + z.lower
               /\ z.distance_pct = <<z.middle - 100, 1>>
               /\ (\A k \in 1..Len(z.pivots) : z.pivots[k].price = 150)
                      => (z.middle = 150 /\ z.distance_pct = <<50, 1>>)

C18_Witness ==
    /\ SpikeScenario
    /\ df = SpikeSeries(152)
    /\ tolerance_percent = 2
    /\ include_touching_levels
    /\ Len(result.resistance_zones) = 1
    /\ result.resistance_zones[1].middle = 151

\* the scenario: zone 98..102, last close 105, rsi 60, macd 1.0 over signal 0.5,
\* last volume above the average volume of the series
BreakoutScenario ==
    /\ ConfidenceScored
    /\ confidence_args.zone.middle = 100
    /\ confidence_args.zone.upper = 102
    /\ confidence_args.zone.lower = 98
    /\ LastRow(confidence_args.df).close = 105
    /\ confidence_args.indicators = Snapshot(IndicatorKeys, 60, 10, 5)
    /\ confidence_args.is_resistance
    /\ LastRow(confidence_args.df).volume * Len(confidence_args.df)
           > SumVolumes(confidence_args.df)

RowOrders(n) ==
    {f \in [1..n -> 1..n] : \A i, j \in 1..n : i # j => f[i] # f[j]}

\* the rows of d in the order f
Permuted(d, f) == [i \in 1..Len(d) |-> d[f[i]]]

ZoneSummary(zone) ==
    [upper |-> zone.upper, lower |-> zone.lower, middle |-> zone.middle,
     touch_count |-> zone.touch_count, total_volume |-> zone.total_volume,
     latest_touch |-> zone.latest_touch]

Summaries(zones) == [k \in 1..Len(zones) |-> ZoneSummary(zones[k])]

\* C20: the zones of the touching-level detector (upper, lower, middle,
\* touch_count, total_volume, latest_touch) depend only on the multiset of
\* touches (price, volume, timestamp), not on the order of the rows: every
\* permutation of the rows gives the same zones.
C20_RowOrderIrrelevant ==
    pc = "loaded" =>
        \A use_highs \in BOOLEAN, tolerance \in TolerancePercents, min \in {1, 3} :
            LET zones == Summaries(_find_touching_levels(df, use_highs,
                                                         tolerance, min))
            IN  \A f \in RowOrders(Len(df)) :
                    Summaries(_find_touching_levels(Permuted(df, f), use_highs,
                                                    tolerance, min)) = zones

C20_Witness ==
    /\ pc = "loaded"
    /\ Len(df) = 3
    /\ df[1].high < df[2].high
    /\ df[3].high < df[1].high
    /\ Len(_find_touching_levels(df, TRUE, 1, 1)) = 2
    /\ _find_touching_levels(df, TRUE, 1, 1)[2].touch_count = 2

(***************************************************************************)
(* run_daily_analysis: the zones of the engine in full currency units      *)
(* (src/finance-bot/src/portfolio/analyzer.py)                             *)
(***************************************************************************)
\* current prices of a stock as the fetcher returns them, in thousands or in
\* full currency units
RawPrices == {96, 100, 96000, 100000}

PRICE_UNIT == 1000

\* a price below 1000 is taken to be in thousands
FullPrice(current_price_raw) ==
    IF current_price_raw < PRICE_UNIT THEN current_price_raw * PRICE_UNIT
    ELSE current_price_raw

\* current_price / 1000.0 if current_price >= 1000 else current_price
PriceForSr(price) == IF price >= PRICE_UNIT THEN price \div PRICE_UNIT ELSE price

\* the zones of a list with the position that their dict has in all_zones
Tagged(zones, first) ==
    [k \in 1..Len(zones) |-> SetKey(zones[k], "position", first + k - 1)]

\* resistance_zones and support_zones hold the dicts of all_zones, not copies:
\* the positions in all_zones of the dicts of one returned list
ListPositions(all_zones, resistance_side, price, is_resistance) ==
    LET side == Tagged(SideOf(all_zones, resistance_side, is_resistance),
                       IF is_resistance THEN 1 ELSE resistance_side + 1)
        kept == IF is_resistance
                THEN Take(SortByDistance(FilterResistance(side, price), FALSE),
                          TopNearest)
                ELSE Take(SortByDistance(FilterSupport(side, price), TRUE),
                          TopNearest)
    IN  [k \in 1..Len(kept) |-> kept[k].position]

\* the loop body: bounds times 1000, distance_pct against the full price
ToFullUnits(zone, full_price) ==
    LET middle == zone.middle * PRICE_UNIT
    IN  [zone EXCEPT !.lower = zone.lower * PRICE_UNIT,
                     !.upper = zone.upper * PRICE_UNIT,
                     !.middle = middle,
                     !.distance_pct =
                         IF full_price > 0
                         THEN Rat((middle - full_price) * 100, full_price)
                         ELSE zone.distance_pct]

\* pivot_zones after both loops: a dict of all_zones is converted iff one of the
\* two lists holds it
ConvertLists(pivot_zones, resistance_side, price, full_price) ==
    LET above == ListPositions(pivot_zones.all_zones, resistance_side, price, TRUE)
        below == ListPositions(pivot_zones.all_zones, resistance_side, price, FALSE)
        all_zones ==
            [k \in 1..Len(pivot_zones.all_zones) |->
                IF k \in SeqToSet(above) \cup SeqToSet(below)
                THEN ToFullUnits(pivot_zones.all_zones[k], full_price)
                ELSE pivot_zones.all_zones[k]]
    IN  [resistance_zones |-> [k \in 1..Len(above) |-> all_zones[above[k]]],
         support_zones |-> [k \in 1..Len(below) |-> all_zones[below[k]]],
         all_zones |-> all_zones]

\* run_daily_analysis on one stock, from the zones that create_pivot_zones
\* returned for find_pivots(df, 5, 5), min_touches = 2 and touching levels
RunDailyAnalysis ==
    /\ pc = "scenario_zones"
    /\ left_bars = 5
    /\ right_bars = 5
    /\ min_touches = 2
    /\ include_touching_levels
    /\ \E current_price_raw \in RawPrices :
          LET full_price == FullPrice(current_price_raw)
          IN  /\ PriceForSr(full_price) = current_price
              /\ support_resistance' =
                     [current_price |-> full_price,
                      zones |-> ConvertLists(result, Len(Step2Zones[TRUE]),
                                             current_price, full_price)]
    /\ pc' = "analysed"
    /\ UNCHANGED <<engine_vars, score_vars, worker_vars, monitor_vars, flow_vars, portfolio_vars>>

Analysed == pc = "analysed"

InFullUnits(zone, engine_zone) ==
    /\ zone.lower = engine_zone.lower * PRICE_UNIT
    /\ zone.upper = engine_zone.upper * PRICE_UNIT
    /\ zone.middle = engine_zone.middle * PRICE_UNIT

\* C21: after run_daily_analysis converted the zones of the engine, every zone
\* of support_zones, resistance_zones and all_zones of the returned structure
\* has lower, upper and middle in full currency units (1000 times the engine's).
C21_EveryZoneInFullUnits ==
    Analysed =>
        \A key \in {"support_zones", "resistance_zones", "all_zones"} :
            \A k \in 1..Len(result[key]) :
                InFullUnits(support_resistance.zones[key][k], result[key][k])

(***************************************************************************)
(* Zones of one side after Step 2                                          *)
(***************************************************************************)
Step2Ran == ZonesReturned /\ ~MalformedPivots(pivots) /\ include_touching_levels /\ Len(df) > 0

RangesIntersect(a, b) == a.lower <= b.upper /\ a.upper >= b.lower

\* C29 as stated: once Step 2 merged the touching-level zones into the pivot
\* zones, any two distinct zones of the resistance side, and any two of the
\* support side, have non-intersecting [lower, upper] ranges.
C29_SideZonesDisjoint ==
    Step2Ran =>
        LET after == Step2Zones
        IN  \A side \in BOOLEAN : \A i, j \in 1..Len(after[side]) :
                i < j => ~RangesIntersect(after[side][i], after[side][j])

(***************************************************************************)
(* touch_count and the provenance list of a zone                           *)
(***************************************************************************)
CountsItsTouches(zone) == zone.touch_count = Len(zone.pivots)

\* C30 as stated: every zone of all_zones has a touch_count equal to the
\* length of its provenance list, Step-2 merges included.
C30_TouchCountIsProvenanceLength ==
    (ZonesReturned /\ ~MalformedPivots(pivots)) =>
        \A k \in 1..Len(result.all_zones) : CountsItsTouches(result.all_zones[k])

\* C30, amended: every zone built by Step 1 and by the touching-level detector
\* has a touch_count equal to the length of its provenance list; after Step 2
\* every zone has a touch_count of at most that length, and exactly that
\* length iff no touching-level zone was merged into it (a merge keeps the
\* larger touch_count and concatenates both provenance lists).
C30_TouchCountWithinProvenance ==
    (ZonesReturned /\ ~MalformedPivots(pivots)) =>
        /\ \A side \in BOOLEAN :
               LET existing == PivotZonesOf(side)
                   touching == TouchingZonesOf(side)
                   after == Treated(existing, touching, Len(touching))
               IN  /\ \A k \in 1..Len(existing) : CountsItsTouches(existing[k])
                   /\ \A j \in 1..Len(touching) : CountsItsTouches(touching[j])
                   /\ \A k \in 1..Len(after) :
                          /\ after[k].touch_count <= Len(after[k].pivots)
                          /\ k <= Len(existing) =>
                                 (CountsItsTouches(after[k]) <=> after[k] = existing[k])
                          /\ k > Len(existing) =>
                                 (CountsItsTouches(after[k]) /\ after[k] \in SeqToSet(touching))
        /\ \A k \in 1..Len(result.all_zones) :
               result.all_zones[k].touch_count <= Len(result.all_zones[k].pivots)

C30_Witness ==
    /\ ZonesReturned
    /\ ~MalformedPivots(pivots)
    /\ \E k \in 1..Len(result.all_zones) :
           /\ result.all_zones[k].touch_count < Len(result.all_zones[k].pivots)
           /\ result.all_zones[k].touch_count >= 2

(***************************************************************************)
(* Workers calling the engine for different tickers                        *)
(***************************************************************************)
\* the series of the tickers: three bars with a pivot high of 105, with a
\* pivot low of 96, and the first again with a larger volume
WorkerSeries ==
    {ConfidenceSeries(3, <<[high |-> 96, low |-> 96], [high |-> 105, low |-> 96],
                          [high |-> 96, low |-> 96]>>, <<15000, 15000, 15000>>, 96),
     ConfidenceSeries(3, <<[high |-> 105, low |-> 105], [high |-> 105, low |-> 96],
                          [high |-> 105, low |-> 105]>>, <<15000, 15000, 15000>>, 105),
     ConfidenceSeries(3, <<[high |-> 96, low |-> 96], [high |-> 105, low |-> 96],
                          [high |-> 96, low |-> 96]>>, <<16500, 16500, 16500>>, 96)}

WorkerPrice == 100

WorkerIndicators == Snapshot(IndicatorKeys, 60, 10, 5)

\* faulty variant: the workers read one buffer, the series of one of them
SeriesOfOneWorker(all, ticker) == all[CHOOSE t \in DOMAIN all : TRUE].df

\* the DataFrame a call receives is the one its own caller passed
SeriesOf(all, ticker) == all[ticker].df

WorkerStart(d) ==
    [pc |-> "loaded", df |-> d, pivots |-> None, zones |-> None,
     confidence_args |-> None, confidence |-> None]

StartWorkers ==
    /\ pc = "start"
    /\ workers' \in [Tickers -> {WorkerStart(d) : d \in WorkerSeries}]
    /\ pc' = "workers"
    /\ UNCHANGED <<analyzer, engine_vars, score_vars, daily_vars, monitor_vars, flow_vars, portfolio_vars>>

WorkerFindPivots(ticker) ==
    /\ pc = "workers"
    /\ workers[ticker].pc = "loaded"
    /\ workers' = [workers EXCEPT ![ticker].pivots = find_pivots(SeriesOf(workers, ticker), 1, 1),
                                  ![ticker].pc = "pivots"]
    /\ UNCHANGED <<pc, analyzer, engine_vars, score_vars, daily_vars, monitor_vars, flow_vars, portfolio_vars>>

WorkerCreatePivotZones(ticker) ==
    /\ pc = "workers"
    /\ workers[ticker].pc = "pivots"
    /\ workers' = [workers EXCEPT
           ![ticker].zones = create_pivot_zones(workers[ticker].pivots, WorkerPrice,
                                                SeriesOf(workers, ticker), 2, 1, TRUE),
           ![ticker].pc = "zones"]
    /\ UNCHANGED <<pc, analyzer, engine_vars, score_vars, daily_vars, monitor_vars, flow_vars, portfolio_vars>>

\* the nearest zone of one side, as main.py picks it
NearestZone(zones, is_resistance) ==
    IF is_resistance THEN zones.resistance_zones ELSE zones.support_zones

WorkerCalculateBreakoutConfidence(ticker) ==
    /\ pc = "workers"
    /\ workers[ticker].pc = "zones"
    /\ \E is_resistance \in BOOLEAN :
          LET nearest == NearestZone(workers[ticker].zones, is_resistance)
          IN  /\ nearest # <<>>
              /\ workers' = [workers EXCEPT
                     ![ticker].confidence_args = [zone |-> nearest[1],
                                                  is_resistance |-> is_resistance],
                     ![ticker].confidence = calculate_breakout_confidence(
                                                nearest[1], WorkerIndicators,
                                                SeriesOf(workers, ticker), is_resistance),
                     ![ticker].pc = "confidence"]
    /\ UNCHANGED <<pc, analyzer, engine_vars, score_vars, daily_vars, monitor_vars, flow_vars, portfolio_vars>>

\* what the calls of one worker return when no other worker runs
AlonePivots(d) == find_pivots(d, 1, 1)

AloneZones(d) == create_pivot_zones(AlonePivots(d), WorkerPrice, d, 2, 1, TRUE)

BeginCycle(number, through, max_concurrent, perform_deep_analysis) ==
    /\ cycle' = [phase |-> "gather", number |-> number, started |-> clock,
                 through |-> through, max_concurrent |-> max_concurrent,
                 perform_deep_analysis |-> perform_deep_analysis]
    /\ tasks' = QueuedTasks
    /\ semaphore' = max_concurrent
    /\ position' = 0
    /\ sent' = {}
    /\ cycle_result' = "pending"

\* run_monitoring: builds a SurgeMonitor and runs one cycle on it
RunMonitoring ==
    /\ pc = "start"
    /\ pc' = "monitor"
    /\ tickers' = ConfiguredTickers
    /\ last_surge_timestamps' = NoTimestamps
    /\ \E in_trading_hours \in BOOLEAN :
          IF in_trading_hours
          THEN BeginCycle(1, "run_monitoring", DEFAULT_MAX_CONCURRENT, TRUE)
          ELSE /\ cycle' = [NoCycle EXCEPT !.phase = "over", !.number = 1,
                                           !.started = clock,
                                           !.through = "run_monitoring"]
               /\ cycle_result' = "outside_trading_hours"
               /\ UNCHANGED <<tasks, semaphore, position, sent>>
    /\ UNCHANGED <<clock, previous, engine_vars, score_vars, daily_vars, worker_vars, flow_vars, portfolio_vars>>

\* a caller builds a SurgeMonitor and calls monitor_tickers on it
MonitorTickers ==
    /\ pc = "start"
    /\ pc' = "monitor"
    /\ tickers' = ConfiguredTickers
    /\ last_surge_timestamps' = NoTimestamps
    /\ \E max_concurrent \in ConcurrencyChoices, perform_deep_analysis \in BOOLEAN :
          BeginCycle(1, "monitor_tickers", max_concurrent, perform_deep_analysis)
    /\ UNCHANGED <<clock, previous, engine_vars, score_vars, daily_vars, worker_vars, flow_vars, portfolio_vars>>

\* faulty variant: the semaphore lets every task in
MayAcquireAlways(value) == TRUE

\* asyncio.Semaphore.acquire returns at once iff the value is positive
MayAcquire(value) == value > 0

InProgress == {i \in 1..Len(tasks) : tasks[i].pc \in {"analysing", "deep"}}

\* async with semaphore: the tasks enter in the order gather created them,
\* the waiters of the semaphore are woken first come first served
Acquire(i) ==
    /\ pc = "monitor"
    /\ cycle.phase = "gather"
    /\ tasks[i].pc = "queued"
    /\ \A j \in 1..(i - 1) : tasks[j].pc # "queued"
    /\ MayAcquire(semaphore)
    /\ semaphore' = semaphore - 1
    /\ tasks' = [tasks EXCEPT ![i].pc = "analysing"]
    /\ UNCHANGED <<pc, clock, tickers, last_surge_timestamps, cycle, position, sent,
                   cycle_result, previous, engine_vars, score_vars, daily_vars,
                   worker_vars, flow_vars, portfolio_vars>>

\* the task leaves async with: the semaphore is released
Done(i, outcome) ==
    /\ tasks' = [tasks EXCEPT ![i].pc = "done", ![i].outcome = outcome]
    /\ semaphore' = semaphore + 1

NotifiedRecently(ticker) ==
    /\ last_surge_timestamps[ticker] # NoTime
    /\ clock - last_surge_timestamps[ticker] < COOLDOWN

\* analyze_ticker from the fetch to the test of last_surge_timestamps: the
\* three awaits (fetch, indicators, detect_surge) touch no state of the
\* monitor, so they are one step; "error" is an exception of any of them
Analyse(i) ==
    /\ pc = "monitor"
    /\ cycle.phase = "gather"
    /\ tasks[i].pc = "analysing"
    /\ \E outcome \in {"error", "empty", "quiet", "surge"} :
          IF outcome # "surge"
          THEN Done(i, outcome) /\ UNCHANGED last_surge_timestamps
          ELSE IF NotifiedRecently(tickers[i])
          THEN Done(i, "skipped") /\ UNCHANGED last_surge_timestamps
          ELSE IF cycle.perform_deep_analysis
          THEN /\ tasks' = [tasks EXCEPT ![i].pc = "deep"]
               /\ UNCHANGED <<semaphore, last_surge_timestamps>>
          ELSE /\ Done(i, "result_without_analysis")
               /\ last_surge_timestamps' =
                      [last_surge_timestamps EXCEPT ![tickers[i]] = clock]
    /\ UNCHANGED <<pc, clock, tickers, cycle, position, sent, cycle_result, previous,
                   engine_vars, score_vars, daily_vars, worker_vars, flow_vars, portfolio_vars>>

\* analyze_ticker from the return of analyze_ticker_multi_timeframe on: an
\* exception of the deep analysis leaves analysis_data None
DeepAnalysis(i) ==
    /\ pc = "monitor"
    /\ cycle.phase = "gather"
    /\ tasks[i].pc = "deep"
    /\ \E raised \in BOOLEAN :
          Done(i, IF raised THEN "result_without_analysis" ELSE "result")
    /\ last_surge_timestamps' = [last_surge_timestamps EXCEPT ![tickers[i]] = clock]
    /\ UNCHANGED <<pc, clock, tickers, cycle, position, sent, cycle_result, previous,
                   engine_vars, score_vars, daily_vars, worker_vars, flow_vars, portfolio_vars>>

\* asyncio.gather returns once every task is done
GatherReturns ==
    /\ pc = "monitor"
    /\ cycle.phase = "gather"
    /\ \A i \in 1..Len(tasks) : tasks[i].pc = "done"
    /\ cycle' = [cycle EXCEPT !.phase = "results"]
    /\ position' = 1
    /\ UNCHANGED <<pc, clock, tickers, last_surge_timestamps, tasks, semaphore, sent,
                   cycle_result, previous, engine_vars, score_vars, daily_vars,
                   worker_vars, flow_vars, portfolio_vars>>

\* faulty variant: an exception of the notifier leaves monitor_tickers
NotifierErrorEscapes(raised) == ~raised

\* try: await self.lark_notifier.send_analysis(...) except Exception
NotifierErrorCaught(raised) == TRUE

\* the loop over analysis_results, one entry: a result is notified
ProcessResult ==
    /\ pc = "monitor"
    /\ cycle.phase = "results"
    /\ position <= Len(tasks)
    /\ IF tasks[position].outcome \in Results
       THEN \E raised \in BOOLEAN :
               IF NotifierErrorCaught(raised)
               THEN /\ sent' = IF raised THEN sent ELSE sent \cup {tickers[position]}
                    /\ tasks' = [tasks EXCEPT ![position].notification =
                                                 IF raised THEN "failed" ELSE "sent"]
                    /\ position' = position + 1
                    /\ UNCHANGED <<cycle, cycle_result>>
               ELSE /\ cycle' = [cycle EXCEPT !.phase = "over"]
                    /\ cycle_result' = "raised"
                    /\ UNCHANGED <<sent, position, tasks>>
       ELSE /\ position' = position + 1
            /\ UNCHANGED <<sent, cycle, cycle_result, tasks>>
    /\ UNCHANGED <<pc, clock, tickers, last_surge_timestamps, semaphore,
                   previous, engine_vars, score_vars, daily_vars, worker_vars, flow_vars, portfolio_vars>>

\* monitor_tickers returns results; run_monitoring_cycle wraps them
ReturnResults ==
    /\ pc = "monitor"
    /\ cycle.phase = "results"
    /\ position > Len(tasks)
    /\ cycle' = [cycle EXCEPT !.phase = "over"]
    /\ cycle_result' = IF cycle.through = "monitor_tickers" THEN "results"
                       ELSE "success"
    /\ UNCHANGED <<pc, clock, tickers, last_surge_timestamps, tasks, semaphore,
                   position, sent, previous, engine_vars, score_vars, daily_vars,
                   worker_vars, flow_vars, portfolio_vars>>

\* time passes between two cycles
Tick ==
    /\ pc = "monitor"
    /\ cycle.phase = "over"
    /\ clock < MaxClock
    /\ clock' = clock + 1
    /\ UNCHANGED <<pc, tickers, last_surge_timestamps, cycle, tasks, semaphore,
                   position, sent, cycle_result, previous, engine_vars, score_vars,
                   daily_vars, worker_vars, flow_vars, portfolio_vars>>

Remembered == [started |-> cycle.started, through |-> cycle.through, notified |-> sent]

\* run_monitoring is called a second time: it builds a new SurgeMonitor
RunMonitoringAgain ==
    /\ pc = "monitor"
    /\ cycle.phase = "over"
    /\ cycle.number = 1
    /\ cycle_result # "raised"
    /\ previous' = Remembered
    /\ last_surge_timestamps' = NoTimestamps
    /\ BeginCycle(2, "run_monitoring", DEFAULT_MAX_CONCURRENT, TRUE)
    /\ UNCHANGED <<pc, clock, tickers, engine_vars, score_vars, daily_vars,
                   worker_vars, flow_vars, portfolio_vars>>

\* the caller that holds the monitor runs a cycle on it
RunMonitoringCycleAgain ==
    /\ pc = "monitor"
    /\ cycle.phase = "over"
    /\ cycle.number = 1
    /\ cycle.through = "monitor_tickers"
    /\ cycle_result # "raised"
    /\ previous' = Remembered
    /\ BeginCycle(2, "run_monitoring_cycle", DEFAULT_MAX_CONCURRENT, TRUE)
    /\ UNCHANGED <<pc, clock, tickers, last_surge_timestamps, engine_vars,
                   score_vars, daily_vars, worker_vars, flow_vars, portfolio_vars>>

(***************************************************************************)
(* Properties of the monitoring cycle                                      *)
(***************************************************************************)
\* the cycle analysed the tickers and ended
CycleOver ==
    /\ pc = "monitor"
    /\ cycle.phase = "over"
    /\ cycle_result # "outside_trading_hours"

\* C23: whatever tickers fail (fetch or indicator error, no data, deep
\* analysis error, notifier error), the cycle analyses every ticker, notifies
\* every ticker whose analysis returned a result and whose own notification
\* did not fail, and run_monitoring_cycle returns success = True.
C23_FailuresAreIsolated ==
    CycleOver =>
        /\ cycle_result = IF cycle.through = "monitor_tickers" THEN "results"
                          ELSE "success"
        /\ position = Len(tasks) + 1
        /\ \A i \in 1..Len(tasks) :
               /\ tasks[i].pc = "done"
               /\ tasks[i].outcome \in Results =>
                      /\ tasks[i].notification \in {"sent", "failed"}
                      /\ tasks[i].notification = "sent" => tickers[i] \in sent
               /\ tasks[i].outcome \notin Results => tasks[i].notification = "none"

\* the first ticker raised in its analysis, the notifier raised for the
\* second, whose deep analysis had raised too, and the third was notified
C23_Witness ==
    /\ CycleOver
    /\ cycle.through = "run_monitoring"
    /\ cycle_result = "success"
    /\ tasks[1].outcome = "error"
    /\ tasks[2].outcome = "result_without_analysis"
    /\ tasks[2].notification = "failed"
    /\ tasks[3].outcome = "result"
    /\ tasks[3].notification = "sent"

Gathering == pc = "monitor" /\ cycle.phase = "gather"

WithinLimit ==
    Gathering =>
        /\ Cardinality(InProgress) <= cycle.max_concurrent
        /\ semaphore = cycle.max_concurrent - Cardinality(InProgress)

TaskAt(i, at) == Gathering /\ tasks[i].pc = at

\* C24: at most max_concurrent calls of analyze_ticker are in progress at any
\* time, and the analysis of every entry of the ticker list eventually
\* starts and eventually finishes.
C24_BoundedAndComplete ==
    /\ []WithinLimit
    /\ \A i \in 1..Len(ConfiguredTickers) :
           /\ TaskAt(i, "queued") ~> TaskAt(i, "analysing")
           /\ TaskAt(i, "analysing") ~> TaskAt(i, "done")

\* two calls hold the semaphore and the third waits for it
C24_Witness ==
    /\ Gathering
    /\ cycle.max_concurrent = 2
    /\ semaphore = 0
    /\ InProgress = {1, 2}
    /\ tasks[3].pc = "queued"

\* a call of analyze_ticker returns a result in this step
ReturnsResult(i) ==
    /\ i \in DOMAIN tasks
    /\ i \in DOMAIN tasks'
    /\ tasks[i].pc \in {"analysing", "deep"}
    /\ tasks'[i].pc = "done"
    /\ tasks'[i].outcome \in Results

\* C25 as stated: on one SurgeMonitor a call of analyze_ticker returns a
\* result for a ticker only if the last call that returned one for that
\* ticker did so at least 30 minutes before.
C25_ResultsHalfAnHourApart ==
    [][\A i \in 1..Len(ConfiguredTickers) :
           ReturnsResult(i) => ~NotifiedRecently(tickers[i])]_vars

\* C26 as stated: two cycles started through run_monitoring less than 30
\* minutes apart never both notify the same ticker.
C26_NoRepeatedNotification ==
    (/\ pc = "monitor"
     /\ cycle.number = 2
     /\ cycle.through = "run_monitoring"
     /\ previous.through = "run_monitoring"
     /\ cycle.started - previous.started < COOLDOWN)
        => sent \cap previous.notified = {}

(***************************************************************************)
(* analyze_ticker_multi_timeframe                                          *)
(***************************************************************************)
\* timeframes = ['1M', '1W', '1D', '4H']
DefaultTimeframes == <<"1M", "1W", "1D", "4H">>

\* the coroutines and methods SupportResistanceAnalyzer defines
AnalyzerMethods ==
    {"__init__", "find_pivots", "_calculate_zone_strength", "_find_touching_levels",
     "create_pivot_zones", "_group_pivots_into_zones", "_calculate_volume_strength",
     "_calculate_momentum_strength", "_calculate_breakout_pattern",
     "calculate_breakout_confidence", "_get_confidence_interpretation"}

\* what one timeframe went through before the support/resistance step
Stages == {"fetch_raised", "no_data", "indicators_failed", "indicators_raised",
           "processed"}

\* utils.ta_utils.analyze_support_resistance: the value it returns, or the
\* exception it raises when the attribute it calls is no method of the class
CallAnalyzer(method) ==
    IF method \in AnalyzerMethods
    THEN [raised |-> "none",
          value |-> [resistance_zones |-> <<>>, support_zones |-> <<>>]]
    ELSE [raised |-> "AttributeError", value |-> <<>>]

UtilsAnalyzeSupportResistance == CallAnalyzer("analyze_support_resistance")

\* results['timeframes'][timeframe] after the iteration of one timeframe
TimeframeEntry(stage, interval) ==
    CASE stage = "fetch_raised" ->
             [error |-> "fetch error", interval_used |-> interval]
      [] stage = "no_data" ->
             [error |-> "No data available", interval_used |-> interval]
      [] stage = "indicators_failed" ->
             [error |-> "Technical analysis failed", interval_used |-> interval]
      [] stage = "indicators_raised" ->
             [error |-> "Technical analysis error", interval_used |-> interval]
      [] stage = "processed" ->
             LET support_resistance_data == UtilsAnalyzeSupportResistance
             IN  IF support_resistance_data.raised # "none"
                 THEN [error |-> support_resistance_data.raised,
                       interval_used |-> interval]
                 ELSE [interval_used |-> interval,
                       support_resistance |-> support_resistance_data.value]

StartMultiTimeframe ==
    /\ pc = "start"
    /\ pc' = "timeframes"
    /\ stages' = <<>>
    /\ flow_results' = [timeframes |-> <<>>, summary |-> <<>>]
    /\ UNCHANGED <<engine_vars, score_vars, daily_vars, worker_vars, monitor_vars, portfolio_vars>>

\* one iteration of 'for timeframe in timeframes'
AnalyzeTimeframe ==
    /\ pc = "timeframes"
    /\ Len(stages) < Len(DefaultTimeframes)
    /\ \E stage \in Stages, fallback \in BOOLEAN :
          LET timeframe == DefaultTimeframes[Len(stages) + 1]
              interval == IF timeframe = "4H" /\ fallback THEN "1H" ELSE timeframe
          IN  /\ stages' = Append(stages, stage)
              /\ flow_results' =
                     [flow_results EXCEPT
                          !.timeframes = Append(@, TimeframeEntry(stage, interval))]
    /\ UNCHANGED <<pc, engine_vars, score_vars, daily_vars, worker_vars, monitor_vars, portfolio_vars>>

Failed(entry) == "error" \in DOMAIN entry

\* the AI step and results['summary']
CreateSummary ==
    /\ pc = "timeframes"
    /\ Len(stages) = Len(DefaultTimeframes)
    /\ \E api_key \in BOOLEAN, ai_raised \in BOOLEAN :
          LET entries == flow_results.timeframes
              valid == {k \in 1..Len(entries) : ~Failed(entries[k])}
          IN  flow_results' =
                  [flow_results EXCEPT
                       !.summary =
                           [successful_timeframes |->
                                {DefaultTimeframes[k] : k \in valid},
                            failed_timeframes |->
                                {DefaultTimeframes[k] :
                                     k \in (1..Len(entries)) \ valid},
                            has_ai_analysis |->
                                api_key /\ valid # {} /\ ~ai_raised]]
    /\ pc' = "summary"
    /\ UNCHANGED <<stages, engine_vars, score_vars, daily_vars, worker_vars,
                   monitor_vars, portfolio_vars>>

\* C27 as stated: every timeframe whose fetch returned data and whose
\* indicator pipeline succeeded has an entry with support_resistance data and
\* no 'error' key, and is listed in summary.successful_timeframes.
C27_ProcessedTimeframesSucceed ==
    pc = "summary" =>
        \A k \in 1..Len(stages) :
            stages[k] = "processed" =>
                /\ ~Failed(flow_results.timeframes[k])
                /\ "support_resistance" \in DOMAIN flow_results.timeframes[k]
                /\ DefaultTimeframes[k] \in flow_results.summary.successful_timeframes

(***************************************************************************)
(* PortfolioManager: two processes save and one loads the portfolio file   *)
(***************************************************************************)
Savers == {"A", "B"}

\* the JSON text each saver dumps, in the pieces the buffered file object
\* hands to the operating system; the file on disk holds StoredDocument
StoredDocument == <<"o1", "o2">>

DocumentOf(saver) == IF saver = "A" THEN <<"a1", "a2", "a3">> ELSE <<"b1", "b2">>

SavedDocuments == {DocumentOf(saver) : saver \in Savers}

\* no file has that name
NoInode == 0

\* a byte range never written, below a write past the end of the file
Hole == "hole"

\* self.portfolio_path exists, temp_path does not
StartPortfolio ==
    /\ pc = "start"
    /\ pc' = "portfolio"
    /\ names' = [portfolio |-> 1, temp |-> NoInode]
    /\ inodes' = <<StoredDocument>>
    /\ savers' = [saver \in Savers |-> [pc |-> "idle", fd |-> NoInode, written |-> 0]]
    /\ loader' = [pc |-> "idle", fd |-> NoInode, data |-> <<>>]
    /\ UNCHANGED <<engine_vars, score_vars, daily_vars, worker_vars, monitor_vars,
                   flow_vars>>

\* open(temp_path, 'w'): creates the file, or truncates the one of that name,
\* before any lock is asked for
SaverOpen(saver) ==
    /\ pc = "portfolio"
    /\ savers[saver].pc = "idle"
    /\ IF names.temp = NoInode
       THEN /\ inodes' = Append(inodes, <<>>)
            /\ names' = [names EXCEPT !.temp = Len(inodes) + 1]
       ELSE /\ inodes' = [inodes EXCEPT ![names.temp] = <<>>]
            /\ UNCHANGED names
    /\ savers' = [savers EXCEPT ![saver].pc = "opened", ![saver].fd = names'.temp]
    /\ UNCHANGED <<pc, loader, engine_vars, score_vars, daily_vars, worker_vars,
                   monitor_vars, flow_vars>>

ExclusiveHeld(inode) == \E saver \in Savers :
                            savers[saver].pc = "locked" /\ savers[saver].fd = inode

SharedHeld(inode) == loader.pc = "locked" /\ loader.fd = inode

\* fcntl.flock(f.fileno(), fcntl.LOCK_EX) returns once no other open file
\* holds a lock on the inode
SaverLock(saver) ==
    /\ pc = "portfolio"
    /\ savers[saver].pc = "opened"
    /\ ~ExclusiveHeld(savers[saver].fd)
    /\ ~SharedHeld(savers[saver].fd)
    /\ savers' = [savers EXCEPT ![saver].pc = "locked"]
    /\ UNCHANGED <<pc, names, inodes, loader, engine_vars, score_vars, daily_vars,
                   worker_vars, monitor_vars, flow_vars>>

RECURSIVE Holes(_)
Holes(n) == IF n <= 0 THEN <<>> ELSE <<Hole>> \o Holes(n - 1)

\* write(2) of one piece at the offset of the file object
WriteAt(content, offset, piece) ==
    IF offset < Len(content) THEN [content EXCEPT ![offset + 1] = piece]
    ELSE content \o Holes(offset - Len(content)) \o <<piece>>

\* json.dump fills the buffer of the file object: a full buffer is written
\* while the lock is held, the rest when the with block closes the file,
\* after LOCK_UN
SaverWrite(saver) ==
    /\ pc = "portfolio"
    /\ savers[saver].pc \in {"locked", "unlocked"}
    /\ savers[saver].written < Len(DocumentOf(saver))
    /\ inodes' = [inodes EXCEPT ![savers[saver].fd] =
                      WriteAt(@, savers[saver].written,
                              DocumentOf(saver)[savers[saver].written + 1])]
    /\ savers' = [savers EXCEPT ![saver].written = @ + 1]
    /\ UNCHANGED <<pc, names, loader, engine_vars, score_vars, daily_vars,
                   worker_vars, monitor_vars, flow_vars>>

\* fcntl.flock(f.fileno(), fcntl.LOCK_UN)
SaverUnlock(saver) ==
    /\ pc = "portfolio"
    /\ savers[saver].pc = "locked"
    /\ savers' = [savers EXCEPT ![saver].pc = "unlocked"]
    /\ UNCHANGED <<pc, names, inodes, loader, engine_vars, score_vars, daily_vars,
                   worker_vars, monitor_vars, flow_vars>>

\* the with block ends: everything is written and the file is closed
SaverClose(saver) ==
    /\ pc = "portfolio"
    /\ savers[saver].pc = "unlocked"
    /\ savers[saver].written = Len(DocumentOf(saver))
    /\ savers' = [savers EXCEPT ![saver].pc = "closed"]
    /\ UNCHANGED <<pc, names, inodes, loader, engine_vars, score_vars, daily_vars,
                   worker_vars, monitor_vars, flow_vars>>

\* temp_path.replace(self.portfolio_path): renames whatever file has the
\* temporary name, FileNotFoundError if none has
SaverReplace(saver) ==
    /\ pc = "portfolio"
    /\ savers[saver].pc = "closed"
    /\ IF names.temp = NoInode
       THEN /\ savers' = [savers EXCEPT ![saver].pc = "raised"]
            /\ UNCHANGED names
       ELSE /\ savers' = [savers EXCEPT ![saver].pc = "saved"]
            /\ names' = [portfolio |-> names.temp, temp |-> NoInode]
    /\ UNCHANGED <<pc, inodes, loader, engine_vars, score_vars, daily_vars,
                   worker_vars, monitor_vars, flow_vars>>

\* open(self.portfolio_path, 'r')
LoaderOpen ==
    /\ pc = "portfolio"
    /\ loader.pc = "idle"
    /\ loader' = [loader EXCEPT !.pc = "opened", !.fd = names.portfolio]
    /\ UNCHANGED <<pc, names, inodes, savers, engine_vars, score_vars, daily_vars,
                   worker_vars, monitor_vars, flow_vars>>

\* fcntl.flock(f.fileno(), fcntl.LOCK_SH)
LoaderLock ==
    /\ pc = "portfolio"
    /\ loader.pc = "opened"
    /\ ~ExclusiveHeld(loader.fd)
    /\ loader' = [loader EXCEPT !.pc = "locked"]
    /\ UNCHANGED <<pc, names, inodes, savers, engine_vars, score_vars, daily_vars,
                   worker_vars, monitor_vars, flow_vars>>

\* json.load(f), LOCK_UN and close
LoaderRead ==
    /\ pc = "portfolio"
    /\ loader.pc = "locked"
    /\ loader' = [loader EXCEPT !.pc = "loaded", !.data = inodes[loader.fd]]
    /\ UNCHANGED <<pc, names, inodes, savers, engine_vars, score_vars, daily_vars,
                   worker_vars, monitor_vars, flow_vars>>

SavesOver == \A saver \in Savers : savers[saver].pc \in {"saved", "raised"}

\* C28 as stated: a load never reads a truncated or partially written
\* document, and once every save is over the portfolio file holds exactly one
\* of the saved documents.
C28_SavesAreAtomic ==
    pc = "portfolio" =>
        /\ loader.pc = "loaded" => loader.data \in SavedDocuments \cup {StoredDocument}
        /\ SavesOver => inodes[names.portfolio] \in SavedDocuments

(***************************************************************************)
(* Specifications                                                          *)
(***************************************************************************)
Next ==
    \/ LoadSeries
    \/ LoadScenario
    \/ FindPivots
    \/ CreatePivotZones
    \/ CreatePivotZonesSupplied
    \/ CreatePivotZonesAgain
    \/ CalculateVolumeStrength
    \/ CalculateBreakoutPattern
    \/ CalculateBreakoutConfidence
    \/ RunDailyAnalysis
    \/ StartWorkers
    \/ \E ticker \in Tickers : WorkerFindPivots(ticker)
    \/ \E ticker \in Tickers : WorkerCreatePivotZones(ticker)
    \/ \E ticker \in Tickers : WorkerCalculateBreakoutConfidence(ticker)
    \/ RunMonitoring
    \/ MonitorTickers
    \/ \E i \in 1..Len(ConfiguredTickers) : Acquire(i)
    \/ \E i \in 1..Len(ConfiguredTickers) : Analyse(i)
    \/ \E i \in 1..Len(ConfiguredTickers) : DeepAnalysis(i)
    \/ GatherReturns
    \/ ProcessResult
    \/ ReturnResults
    \/ Tick
    \/ RunMonitoringAgain
    \/ RunMonitoringCycleAgain
    \/ StartMultiTimeframe
    \/ AnalyzeTimeframe
    \/ CreateSummary
    \/ StartPortfolio
    \/ \E saver \in Savers : SaverOpen(saver)
    \/ \E saver \in Savers : SaverLock(saver)
    \/ \E saver \in Savers : SaverWrite(saver)
    \/ \E saver \in Savers : SaverUnlock(saver)
    \/ \E saver \in Savers : SaverClose(saver)
    \/ \E saver \in Savers : SaverReplace(saver)
    \/ LoaderOpen
    \/ LoaderLock
    \/ LoaderRead

Spec == Init /\ [][Next]_vars

\* the operations that read the series alone
SeriesNext ==
    \/ LoadSeries
    \/ FindPivots

SeriesSpec == Init /\ [][SeriesNext]_vars

\* create_pivot_zones on the pivots a caller supplies and on the scenario
\* series, run once and again
ZonesNext ==
    \/ LoadScenario
    \/ FindPivots
    \/ CreatePivotZones
    \/ CreatePivotZonesSupplied
    \/ CreatePivotZonesAgain
    \/ RunDailyAnalysis

ZonesSpec == Init /\ [][ZonesNext]_vars

\* the scoring functions, each on arguments of its own
ScoreNext ==
    \/ CalculateVolumeStrength
    \/ CalculateBreakoutPattern
    \/ CalculateBreakoutConfidence

ScoreSpec == Init /\ [][ScoreNext]_vars

\* the workers of the tickers, interleaved
WorkersNext ==
    \/ StartWorkers
    \/ \E ticker \in Tickers : WorkerFindPivots(ticker)
    \/ \E ticker \in Tickers : WorkerCreatePivotZones(ticker)
    \/ \E ticker \in Tickers : WorkerCalculateBreakoutConfidence(ticker)

WorkersSpec == Init /\ [][WorkersNext]_vars

\* one monitoring cycle
CycleNext ==
    \/ RunMonitoring
    \/ MonitorTickers
    \/ \E i \in 1..Len(ConfiguredTickers) : Acquire(i)
    \/ \E i \in 1..Len(ConfiguredTickers) : Analyse(i)
    \/ \E i \in 1..Len(ConfiguredTickers) : DeepAnalysis(i)
    \/ GatherReturns
    \/ ProcessResult
    \/ ReturnResults

CycleSpec == Init /\ [][CycleNext]_vars

\* every awaited call returns or raises, and the event loop runs every task
\* that is ready
FairCycleSpec ==
    /\ CycleSpec
    /\ \A i \in 1..Len(ConfiguredTickers) :
           WF_vars(Acquire(i)) /\ WF_vars(Analyse(i)) /\ WF_vars(DeepAnalysis(i))
    /\ WF_vars(GatherReturns) /\ WF_vars(ProcessResult) /\ WF_vars(ReturnResults)

\* a monitoring cycle and the one after it
MonitorNext ==
    \/ RunMonitoring
    \/ MonitorTickers
    \/ \E i \in 1..Len(ConfiguredTickers) : Acquire(i)
    \/ \E i \in 1..Len(ConfiguredTickers) : Analyse(i)
    \/ \E i \in 1..Len(ConfiguredTickers) : DeepAnalysis(i)
    \/ GatherReturns
    \/ ProcessResult
    \/ ReturnResults
    \/ Tick
    \/ RunMonitoringAgain
    \/ RunMonitoringCycleAgain

MonitorSpec == Init /\ [][MonitorNext]_vars

\* the analysis of one ticker over its timeframes
FlowNext ==
    \/ StartMultiTimeframe
    \/ AnalyzeTimeframe
    \/ CreateSummary

FlowSpec == Init /\ [][FlowNext]_vars

\* the processes that save and load the portfolio file
PortfolioNext ==
    \/ StartPortfolio
    \/ \E saver \in Savers : SaverOpen(saver)
    \/ \E saver \in Savers : SaverLock(saver)
    \/ \E saver \in Savers : SaverWrite(saver)
    \/ \E saver \in Savers : SaverUnlock(saver)
    \/ \E saver \in Savers : SaverClose(saver)
    \/ \E saver \in Savers : SaverReplace(saver)
    \/ LoaderOpen
    \/ LoaderLock
    \/ LoaderRead

PortfolioSpec == Init /\ [][PortfolioNext]_vars

====
